---- MODULE Spec2Model ----
(***************************************************************************)
(* Model of src/Nike_snkrs_bot.py: the lifecycle of NikeSNKRSBot.start(),  *)
(* the Retry Controller (_retry), the nine stages it drives, the           *)
(* release-time wait loop and the finally-block cleanup.                   *)
(*                                                                         *)
(* Time is counted in units of 10 ms (1 s = 100 units), so that the 0.05 s *)
(* tick of wait_for_drop is an integer.                                    *)
(***************************************************************************)
EXTENDS Integers, Sequences, FiniteSets, TLC

(* ------------------------------ bounds --------------------------------- *)

\* Largest retry_limit the configurations range over.
MaxRetryLimit == 3

\* The farthest release timestamp, 150 s after the run starts.
FarTarget == 15000

(* ------------------------ program constants ---------------------------- *)

LongThreshold == 12000
ShortThreshold == 500
LongSleepMargin == 1000
LongSleepCap == 6000
ShortSleep == 100
TickSleep == 5
BackoffMin == 100
BackoffMax == 300
RefreshInterval == 300

(* ---------------------------- the stages ------------------------------- *)

\* start(), lines 505-513: the stage methods in call order.
StageOrder ==
    << "login", "wait_for_drop", "navigate_to_shoe", "select_size",
       "add_to_cart", "begin_checkout", "fill_shipping", "fill_payment",
       "submit_order" >>

Stages == { StageOrder[i] : i \in 1..Len(StageOrder) }

\* The stage methods whose body is self._retry(func, name).
Wrapped ==
    { "login", "select_size", "add_to_cart", "begin_checkout",
      "fill_shipping", "fill_payment", "submit_order" }

\* The statement start() executes after the stage call at position i.
NextIdxSkip(i) == i + 2
NextIdx(i) == i + 1

(* -------------------------- configuration ------------------------------ *)

\* retry_limit is an unvalidated int of the config file.
RetryLimits == { 0 - 1, 0 } \cup (1..MaxRetryLimit)

\* drop_time: unset (None or ""), a string lines 881-884 cannot handle, or
\* a timestamp (here: 10 ms units since the run started, possibly past).
DropTimes ==
    { 0 - ShortSleep, 0, BackoffMin + BackoffMin, ShortThreshold + 3,
      LongThreshold + LongSleepCap + 7, FarTarget }

DropConfigs ==
    { [ kind |-> "unset", at |-> 0 ], [ kind |-> "invalid", at |-> 0 ] }
        \cup { [ kind |-> "at", at |-> t ] : t \in DropTimes }

Configs ==
    [ email : BOOLEAN, password : BOOLEAN, shoe_url : BOOLEAN,
      shoe_size : BOOLEAN, retry_limit : RetryLimits,
      drop_time : DropConfigs ]

\* _validate_config: every required value is non-empty.
ConfigValidNoSize(c) == c.email /\ c.password /\ c.shoe_url
ConfigValid(c) == c.email /\ c.password /\ c.shoe_url /\ c.shoe_size

(* ------------------------- the Retry Controller ------------------------ *)

\* for attempt in range(1, retry_limit + 1): is there a first iteration?
RetryLoopEntersOffByOne(limit) == limit >= 2
RetryLoopEnters(limit) == limit >= 1

\* What one iteration of _retry does with the result of func():
\* "return" (line 544), "raise" (line 552) or "backoff" (line 553).
RetryStepNoReturn(att, limit, result) ==
    IF att = limit
    THEN (IF result = "ok" THEN "return" ELSE "raise")
    ELSE "backoff"
RetryStepRaiseFirst(att, limit, result) ==
    IF result = "ok" THEN "return" ELSE "raise"
RetryStep(att, limit, result) ==
    IF result = "ok" THEN "return"
    ELSE IF att = limit THEN "raise"
    ELSE "backoff"

(* -------------------------- stage functions ---------------------------- *)

\* Which candidate of a selector chain is the first to match: none of them,
\* the first listed, or a later one.
Hit == { "none", "first", "later" }

LoginObs ==
    [ email_field : Hit, password_route : { "visible", "use_password", "none" },
      password_field : Hit, signin_btn : Hit, left_login : BOOLEAN ]

\* _browser_login: the result of one attempt on the observed page.
BrowserLogin(o) ==
    IF o.email_field = "none" THEN "NoSuchElementException"
    ELSE IF o.password_route = "none" THEN "NoSuchElementException"
    ELSE IF o.password_field = "none" THEN "NoSuchElementException"
    ELSE IF o.signin_btn = "none" THEN "NoSuchElementException"
    ELSE IF o.left_login THEN "ok"
    ELSE "RuntimeError"

SelectObs == [ attr : Hit, text : BOOLEAN ]

\* select_size._do_select: strategy A (attribute selectors), then strategy B.
DoSelect(o) ==
    IF o.attr # "none" \/ o.text THEN "ok" ELSE "NoSuchElementException"

\* add_to_cart._do_add: first clickable candidate wins.
DoAdd(o) == IF o # "none" THEN "ok" ELSE "NoSuchElementException"

CheckoutObs == [ click : Hit, direct : BOOLEAN ]

\* begin_checkout._do_checkout: a click that reaches /checkout, or the
\* direct navigation.
DoCheckout(o) ==
    IF o.click # "none" \/ o.direct THEN "ok" ELSE "RuntimeError"

FormObs == [ already : BOOLEAN, interact_error : BOOLEAN ]

\* fill_shipping._do_shipping: skipped when already complete; a field write
\* may raise a driver error; _click_continue_button never raises.
DoShipping(o) ==
    IF o.already THEN "ok"
    ELSE IF o.interact_error THEN "WebDriverException"
    ELSE "ok"

\* fill_payment._do_payment: same shape.
DoPayment(o) ==
    IF o.already THEN "ok"
    ELSE IF o.interact_error THEN "WebDriverException"
    ELSE "ok"

\* submit_order._do_submit: first clickable candidate wins.
DoSubmit(o) == IF o # "none" THEN "ok" ELSE "NoSuchElementException"

\* What the page can show to one attempt of a wrapped stage.
Obs(s) ==
    CASE s = "login" -> LoginObs
      [] s = "select_size" -> SelectObs
      [] s = "add_to_cart" -> Hit
      [] s = "begin_checkout" -> CheckoutObs
      [] s = "fill_shipping" -> FormObs
      [] s = "fill_payment" -> FormObs
      [] s = "submit_order" -> Hit

\* The function each wrapped stage hands to _retry.
StageFn(s, o) ==
    CASE s = "login" -> BrowserLogin(o)
      [] s = "select_size" -> DoSelect(o)
      [] s = "add_to_cart" -> DoAdd(o)
      [] s = "begin_checkout" -> DoCheckout(o)
      [] s = "fill_shipping" -> DoShipping(o)
      [] s = "fill_payment" -> DoPayment(o)
      [] s = "submit_order" -> DoSubmit(o)

\* The observation in which every selector chain matches on its first
\* candidate (and the variant is present and clickable).
Ideal(s, o) ==
    CASE s = "login" ->
            /\ o.email_field = "first" /\ o.password_route = "visible"
            /\ o.password_field = "first" /\ o.signin_btn = "first"
            /\ o.left_login
      [] s = "select_size" -> o.attr = "first"
      [] s = "add_to_cart" -> o = "first"
      [] s = "begin_checkout" -> o.click = "first"
      [] s = "fill_shipping" -> ~o.interact_error
      [] s = "fill_payment" -> ~o.interact_error
      [] s = "submit_order" -> o = "first"

(* -------------------------- wait_for_drop ------------------------------ *)

Min(a, b) == IF a <= b THEN a ELSE b

\* Lines 877-886: return at once, raise (fromisoformat or the comparison
\* rejects the value), or enter the loop.
WaitEntryNoPastCheck(drop, now) ==
    IF drop.kind = "unset" THEN "return"
    ELSE IF drop.kind = "invalid" THEN "raise"
    ELSE "loop"
WaitEntry(drop, now) ==
    IF drop.kind = "unset" THEN "return"
    ELSE IF drop.kind = "invalid" THEN "raise"
    ELSE IF now >= drop.at THEN "return"
    ELSE "loop"

\* Lines 896-907: one iteration of the loop on the recomputed remaining time.
WaitStepEarlyBreak(remaining) ==
    IF remaining <= ShortThreshold
    THEN [ kind |-> "break", sleep |-> 0, keepalive |-> FALSE ]
    ELSE IF remaining > LongThreshold
    THEN [ kind |-> "sleep", keepalive |-> TRUE,
           sleep |-> Min(remaining - LongSleepMargin, LongSleepCap) ]
    ELSE [ kind |-> "sleep", sleep |-> ShortSleep, keepalive |-> FALSE ]
\* WaitStep without the keep-alive of line 901.
WaitStepNoKeepAlive(remaining) ==
    IF remaining <= 0
    THEN [ kind |-> "break", sleep |-> 0, keepalive |-> FALSE ]
    ELSE IF remaining > LongThreshold
    THEN [ kind |-> "sleep", keepalive |-> FALSE,
           sleep |-> Min(remaining - LongSleepMargin, LongSleepCap) ]
    ELSE IF remaining > ShortThreshold
    THEN [ kind |-> "sleep", sleep |-> ShortSleep, keepalive |-> FALSE ]
    ELSE [ kind |-> "sleep", sleep |-> TickSleep, keepalive |-> FALSE ]
WaitStep(remaining) ==
    IF remaining <= 0
    THEN [ kind |-> "break", sleep |-> 0, keepalive |-> FALSE ]
    ELSE IF remaining > LongThreshold
    THEN [ kind |-> "sleep", keepalive |-> TRUE,
           sleep |-> Min(remaining - LongSleepMargin, LongSleepCap) ]
    ELSE IF remaining > ShortThreshold
    THEN [ kind |-> "sleep", sleep |-> ShortSleep, keepalive |-> FALSE ]
    ELSE [ kind |-> "sleep", sleep |-> TickSleep, keepalive |-> FALSE ]

(* ------------------------- navigate_to_shoe ---------------------------- *)

\* One load of the product page: an indicator is found, the wait (or the
\* page load) times out, or the driver raises another error.
NavObs == { "found", "timeout", "error" }

\* Lines 924-948: what one iteration of the loop does.
\* NavStep with a loop that runs once more than range(1, retry_limit + 1).
NavStepOneMore(att, limit, o) ==
    IF o = "found" THEN "return"
    ELSE IF o = "error" THEN "raise"
    ELSE IF att = limit + 1 THEN "exhausted"
    ELSE "next"
NavStep(att, limit, o) ==
    IF o = "found" THEN "return"
    ELSE IF o = "error" THEN "raise"
    ELSE IF att = limit THEN "exhausted"
    ELSE "next"

(* ----------------------------- login() --------------------------------- *)

\* Lines 557-563: the strategies one invocation of the login stage function
\* runs, in order. login() hands _browser_login to _retry and nothing else;
\* NikeAPILogin (lines 322-449) is instantiated nowhere in the module.
LoginStrategiesApiFirst == << "api", "browser" >>
LoginStrategies == << "browser" >>

\* What the login stage has run so far: the strategy it ran first and the
\* set of strategies it ran.
RunStrategies(tried, strategies) ==
    [ first |-> IF tried.first = "none" THEN strategies[1] ELSE tried.first,
      used  |-> tried.used \cup { strategies[i] : i \in 1..Len(strategies) } ]

\* Lines 1332-1354: main() calls bot.start() and returns; the script has no
\* sys.exit call, so the status of the process is 0 when start() returns
\* and 1 when an exception leaves it.
MainExitStatus(ended) == IF ended = "raised" THEN 1 ELSE 0

(* ------------------- the 2FA wait of _browser_login -------------------- *)

\* Lines 806 and 817, in 10 ms units.
MaxWait2FA == 30000
PollSleep2FA == 200

\* Lines 809-817: one pass of the loop, from the test of the while to the
\* sleep; after the loop comes the raise of line 819.
TwoFactorStepEarlyRaise(elapsed, on_login) ==
    IF elapsed + PollSleep2FA >= MaxWait2FA THEN "raise"
    ELSE IF ~on_login THEN "return"
    ELSE "sleep"
TwoFactorStep(elapsed, on_login) ==
    IF ~(elapsed < MaxWait2FA) THEN "raise"
    ELSE IF ~on_login THEN "return"
    ELSE "sleep"

(* ------------------------------ state ---------------------------------- *)

VARIABLES
    cfg,          \* UserProfile / BotConfig, read-only during a run
    pc,           \* position of the run inside start()
    idx,          \* which stage call of lines 505-513 is next / running
    session,      \* the browser session: "none", "open", "closed"
    attempt,      \* loop variable of _retry / of navigate_to_shoe
    clock,        \* now, in 10 ms units
    outcome,      \* how the try block ended
    exit,         \* how start() ended: "none", "returned", "raised"
    fatal,        \* the exception that reached the handler of line 517
    lastErr,      \* the exception the latest failed attempt raised
    begun,        \* history: the stage methods called so far, in order
    returned,     \* history: the stage methods that returned normally
    invoked,      \* history: stages whose function has been invoked
    outcomes,     \* history: results of the invocations of the latest stage
    retries,      \* history: attempts started beyond a stage's first one
    shots,        \* history: _screenshot calls, per caller
    backoffs,     \* history: backoff sleeps of _retry
    wait,         \* history of wait_for_drop: entry, return, sleeps, keep-alives
    allFirst,     \* history: every observation so far was the ideal one
    cancelAt,     \* history: where the first KeyboardInterrupt landed
    loginTried,   \* history: the login strategies the login stage has run
    tfa,          \* the 2FA wait of _browser_login, lines 804-822
    res,          \* a call of _find_first_element, lines 862-871
    pick,         \* an attempt of select_size, lines 956-1003
    ship,         \* an attempt of fill_shipping, lines 1084-1118
    api,          \* a call of NikeAPILogin.login, lines 337-449
    rc,           \* a call of _retry, lines 541-553, then the capture of line 520
    lg,           \* an attempt of _browser_login, lines 565-844
    co,           \* an attempt of begin_checkout, lines 1045-1074
    pay,          \* a call of fill_payment, lines 1124-1202
    sub,          \* a call of submit_order, lines 1208-1238
    typ           \* the writes of fill_shipping into one field, lines 1102-1113, over the attempts of _retry

\* The state of a run of start().
run ==
    << cfg, pc, idx, session, attempt, clock, outcome, exit, fatal, lastErr,
       begun, returned, invoked, outcomes, retries, shots, backoffs, wait,
       allFirst, cancelAt, loginTried >>

\* The state of the components that are examined on their own, outside a
\* run.
parts ==
    << tfa, res, pick, ship, api, rc, lg, co, pay, sub, typ >>

vars == << run, parts >>

NoErr == [ stage |-> "none", attempt |-> 0, kind |-> "none" ]

NoCancel ==
    [ pc |-> "none", begun |-> 0, calls |-> 0, retries |-> 0, backoffs |-> 0,
      retryShots |-> 0 ]

NoWait ==
    [ entered |-> FALSE, done |-> FALSE, entry |-> 0, ret |-> 0,
      sleeps |-> 0, keepalives |-> 0 ]

NoShots == [ retry |-> 0, nav |-> 0, final |-> 0 ]

NoLogin == [ first |-> "none", used |-> {} ]

\* The 2FA wait before line 806 is reached.
TfaIdle ==
    [ pc |-> "idle", start |-> 0, now |-> 0, on_login |-> TRUE,
      left_at |-> 0 - 1, polls |-> 0, last_poll |-> 0 - 1, gap_ok |-> TRUE,
      result |-> "none" ]

NotCalled == [ pc |-> "idle" ]

\* No component is being examined on its own.
PartsIdle ==
    /\ tfa = TfaIdle
    /\ res = NotCalled
    /\ pick = NotCalled
    /\ ship = NotCalled
    /\ api = NotCalled
    /\ rc = NotCalled
    /\ lg = NotCalled
    /\ co = NotCalled
    /\ pay = NotCalled
    /\ sub = NotCalled
    /\ typ = NotCalled

\* The state when start() is called.
RunStart ==
    /\ pc = "validate"
    /\ idx = 1
    /\ session = "none"
    /\ attempt = 0
    /\ clock = 0
    /\ outcome = "running"
    /\ exit = "none"
    /\ fatal = NoErr
    /\ lastErr = NoErr
    /\ begun = << >>
    /\ returned = {}
    /\ invoked = {}
    /\ outcomes = << >>
    /\ retries = 0
    /\ shots = NoShots
    /\ backoffs = 0
    /\ wait = NoWait
    /\ allFirst = TRUE
    /\ cancelAt = NoCancel
    /\ loginTried = NoLogin

Init ==
    /\ cfg \in Configs
    /\ RunStart
    /\ PartsIdle

\* A complete configuration, for the components examined on their own.
SomeConfig ==
    [ email |-> TRUE, password |-> TRUE, shoe_url |-> TRUE, shoe_size |-> TRUE,
      retry_limit |-> MaxRetryLimit, drop_time |-> [ kind |-> "unset", at |-> 0 ] ]

(* ------------------------- component frames ---------------------------- *)

\* For each component examined on its own: everything else, and the state
\* in which everything else is at rest.
butTfa ==
    << run, res, pick, ship, api, rc, lg, co, pay, sub, typ >>
OnlyTfa ==
    /\ cfg = SomeConfig
    /\ RunStart
    /\ res = NotCalled
    /\ pick = NotCalled
    /\ ship = NotCalled
    /\ api = NotCalled
    /\ rc = NotCalled
    /\ lg = NotCalled
    /\ co = NotCalled
    /\ pay = NotCalled
    /\ sub = NotCalled
    /\ typ = NotCalled

butRes ==
    << run, tfa, pick, ship, api, rc, lg, co, pay, sub, typ >>
OnlyRes ==
    /\ cfg = SomeConfig
    /\ RunStart
    /\ tfa = TfaIdle
    /\ pick = NotCalled
    /\ ship = NotCalled
    /\ api = NotCalled
    /\ rc = NotCalled
    /\ lg = NotCalled
    /\ co = NotCalled
    /\ pay = NotCalled
    /\ sub = NotCalled
    /\ typ = NotCalled

butPick ==
    << run, tfa, res, ship, api, rc, lg, co, pay, sub, typ >>
OnlyPick ==
    /\ cfg = SomeConfig
    /\ RunStart
    /\ tfa = TfaIdle
    /\ res = NotCalled
    /\ ship = NotCalled
    /\ api = NotCalled
    /\ rc = NotCalled
    /\ lg = NotCalled
    /\ co = NotCalled
    /\ pay = NotCalled
    /\ sub = NotCalled
    /\ typ = NotCalled

butShip ==
    << run, tfa, res, pick, api, rc, lg, co, pay, sub, typ >>
OnlyShip ==
    /\ cfg = SomeConfig
    /\ RunStart
    /\ tfa = TfaIdle
    /\ res = NotCalled
    /\ pick = NotCalled
    /\ api = NotCalled
    /\ rc = NotCalled
    /\ lg = NotCalled
    /\ co = NotCalled
    /\ pay = NotCalled
    /\ sub = NotCalled
    /\ typ = NotCalled

butApi ==
    << run, tfa, res, pick, ship, rc, lg, co, pay, sub, typ >>
OnlyApi ==
    /\ cfg = SomeConfig
    /\ RunStart
    /\ tfa = TfaIdle
    /\ res = NotCalled
    /\ pick = NotCalled
    /\ ship = NotCalled
    /\ rc = NotCalled
    /\ lg = NotCalled
    /\ co = NotCalled
    /\ pay = NotCalled
    /\ sub = NotCalled
    /\ typ = NotCalled

butRc ==
    << run, tfa, res, pick, ship, api, lg, co, pay, sub, typ >>
OnlyRc ==
    /\ cfg = SomeConfig
    /\ RunStart
    /\ tfa = TfaIdle
    /\ res = NotCalled
    /\ pick = NotCalled
    /\ ship = NotCalled
    /\ api = NotCalled
    /\ lg = NotCalled
    /\ co = NotCalled
    /\ pay = NotCalled
    /\ sub = NotCalled
    /\ typ = NotCalled

butLg ==
    << run, tfa, res, pick, ship, api, rc, co, pay, sub, typ >>
OnlyLg ==
    /\ cfg = SomeConfig
    /\ RunStart
    /\ tfa = TfaIdle
    /\ res = NotCalled
    /\ pick = NotCalled
    /\ ship = NotCalled
    /\ api = NotCalled
    /\ rc = NotCalled
    /\ co = NotCalled
    /\ pay = NotCalled
    /\ sub = NotCalled
    /\ typ = NotCalled

butCo ==
    << run, tfa, res, pick, ship, api, rc, lg, pay, sub, typ >>
OnlyCo ==
    /\ cfg = SomeConfig
    /\ RunStart
    /\ tfa = TfaIdle
    /\ res = NotCalled
    /\ pick = NotCalled
    /\ ship = NotCalled
    /\ api = NotCalled
    /\ rc = NotCalled
    /\ lg = NotCalled
    /\ pay = NotCalled
    /\ sub = NotCalled
    /\ typ = NotCalled

butPay ==
    << run, tfa, res, pick, ship, api, rc, lg, co, sub, typ >>
OnlyPay ==
    /\ cfg = SomeConfig
    /\ RunStart
    /\ tfa = TfaIdle
    /\ res = NotCalled
    /\ pick = NotCalled
    /\ ship = NotCalled
    /\ api = NotCalled
    /\ rc = NotCalled
    /\ lg = NotCalled
    /\ co = NotCalled
    /\ sub = NotCalled
    /\ typ = NotCalled

butSub ==
    << run, tfa, res, pick, ship, api, rc, lg, co, pay, typ >>
OnlySub ==
    /\ cfg = SomeConfig
    /\ RunStart
    /\ tfa = TfaIdle
    /\ res = NotCalled
    /\ pick = NotCalled
    /\ ship = NotCalled
    /\ api = NotCalled
    /\ rc = NotCalled
    /\ lg = NotCalled
    /\ co = NotCalled
    /\ pay = NotCalled
    /\ typ = NotCalled

butTyp ==
    << run, tfa, res, pick, ship, api, rc, lg, co, pay, sub >>
OnlyTyp ==
    /\ cfg = SomeConfig
    /\ RunStart
    /\ tfa = TfaIdle
    /\ res = NotCalled
    /\ pick = NotCalled
    /\ ship = NotCalled
    /\ api = NotCalled
    /\ rc = NotCalled
    /\ lg = NotCalled
    /\ co = NotCalled
    /\ pay = NotCalled
    /\ sub = NotCalled

CurStage == StageOrder[idx]

\* Time the clock of the run until wait_for_drop has read it for the last
\* time; nothing reads it afterwards.
Tick(d) == clock' = (IF wait.done THEN clock ELSE clock + d)

\* The running stage method returns normally: start() goes on to the next
\* statement of the try block, line 514 after the last stage.
StageReturns ==
    /\ returned' = returned \cup { CurStage }
    /\ IF idx = Len(StageOrder)
       THEN /\ outcome' = "completed"
            /\ pc' = "final_shot"
            /\ idx' = idx
       ELSE /\ outcome' = outcome
            /\ pc' = "stage"
            /\ idx' = NextIdx(idx)
    /\ UNCHANGED fatal

\* An Exception leaves the running stage method: handler of lines 517-518.
StageRaises(err) ==
    /\ fatal' = err
    /\ outcome' = "fatal"
    /\ pc' = "final_shot"
    /\ UNCHANGED << returned, idx >>

(* ------------------------------ start() -------------------------------- *)

\* Line 499: a missing required value raises ValueError out of start(),
\* before the driver exists and outside the try block.
ValidateConfig ==
    /\ pc = "validate"
    /\ IF ConfigValid(cfg)
       THEN /\ pc' = "create_driver"
            /\ UNCHANGED << outcome, exit >>
       ELSE /\ pc' = "done"
            /\ outcome' = "config_error"
            /\ exit' = "raised"
    /\ UNCHANGED << cfg, idx, session, attempt, clock, fatal, lastErr, begun,
                    returned, invoked, outcomes, retries, shots, backoffs,
                    wait, allFirst, cancelAt >>
    /\ UNCHANGED << loginTried, parts >>

\* Line 500: create_driver returns the session, or raises out of start().
CreateDriver ==
    /\ pc = "create_driver"
    /\ \E ok \in BOOLEAN :
          IF ok
          THEN /\ session' = "open"
               /\ pc' = "setup"
               /\ UNCHANGED << outcome, exit >>
          ELSE /\ session' = session
               /\ pc' = "done"
               /\ outcome' = "driver_error"
               /\ exit' = "raised"
    /\ UNCHANGED << cfg, idx, attempt, clock, fatal, lastErr, begun, returned,
                    invoked, outcomes, retries, shots, backoffs, wait,
                    allFirst, cancelAt >>
    /\ UNCHANGED << loginTried, parts >>

\* Lines 501-504: the helpers are built and the try block is entered.
SetupHelpers ==
    /\ pc = "setup"
    /\ pc' = "stage"
    /\ UNCHANGED << cfg, idx, session, attempt, clock, outcome, exit, fatal,
                    lastErr, begun, returned, invoked, outcomes, retries,
                    shots, backoffs, wait, allFirst, cancelAt >>
    /\ UNCHANGED << loginTried, parts >>

(* ------------------------------ _retry --------------------------------- *)

\* A wrapped stage method is called and enters _retry (lines 541-542). With
\* an empty range the loop body never runs and _retry returns None.
EnterRetry ==
    /\ pc = "stage"
    /\ CurStage \in Wrapped
    /\ begun' = Append(begun, CurStage)
    /\ outcomes' = << >>
    /\ attempt' = 1
    /\ IF RetryLoopEnters(cfg.retry_limit)
       THEN /\ pc' = "attempt"
            /\ UNCHANGED << returned, idx, outcome, fatal >>
       ELSE StageReturns
    /\ UNCHANGED << cfg, session, clock, exit, lastErr, invoked, retries,
                    shots, backoffs, wait, allFirst, cancelAt >>
    /\ UNCHANGED << loginTried, parts >>

\* Lines 543-552: one iteration: func() runs on what the page shows; on an
\* Exception the handler logs, takes a screenshot and re-raises or goes on.
Attempt ==
    /\ pc = "attempt"
    /\ \E o \in Obs(CurStage) :
          LET result == StageFn(CurStage, o)
              err == [ stage |-> CurStage, attempt |-> attempt, kind |-> result ]
              step == RetryStep(attempt, cfg.retry_limit, result)
          IN  /\ outcomes' = Append(outcomes, IF result = "ok" THEN "ok" ELSE "fail")
              /\ invoked' = invoked \cup { CurStage }
              /\ allFirst' = (allFirst /\ Ideal(CurStage, o))
              /\ CASE step = "return" ->
                        /\ StageReturns
                        /\ UNCHANGED << lastErr, shots >>
                   [] step = "raise" ->
                        /\ lastErr' = err
                        /\ shots' = [ shots EXCEPT !.retry = @ + 1 ]
                        /\ StageRaises(err)
                   [] step = "backoff" ->
                        /\ lastErr' = err
                        /\ shots' = [ shots EXCEPT !.retry = @ + 1 ]
                        /\ pc' = "backoff"
                        /\ UNCHANGED << returned, idx, outcome, fatal >>
    /\ UNCHANGED << cfg, session, attempt, clock, exit, begun, retries,
                    backoffs, wait, cancelAt >>
    /\ loginTried' = (IF CurStage = "login"
                      THEN RunStrategies(loginTried, LoginStrategies)
                      ELSE loginTried)
    /\ UNCHANGED parts

\* Line 553 and the next iteration of the for loop.
Backoff ==
    /\ pc = "backoff"
    /\ \E d \in { BackoffMin, BackoffMax } : Tick(d)
    /\ backoffs' = backoffs + 1
    /\ attempt' = attempt + 1
    /\ retries' = retries + 1
    /\ pc' = "attempt"
    /\ UNCHANGED << cfg, idx, session, outcome, exit, fatal, lastErr, begun,
                    returned, invoked, outcomes, shots, wait, allFirst,
                    cancelAt >>
    /\ UNCHANGED << loginTried, parts >>

(* --------------------------- wait_for_drop ----------------------------- *)

\* Lines 875-892: the stage is called directly by start(), not through
\* _retry.
WaitForDrop ==
    /\ pc = "stage"
    /\ CurStage = "wait_for_drop"
    /\ begun' = Append(begun, CurStage)
    /\ invoked' = invoked \cup { CurStage }
    /\ attempt' = 1
    /\ LET entry == WaitEntry(cfg.drop_time, clock)
       IN  CASE entry = "return" ->
                   /\ StageReturns
                   /\ outcomes' = << "ok" >>
                   /\ wait' = [ wait EXCEPT !.entered = TRUE, !.done = TRUE,
                                            !.entry = clock, !.ret = clock ]
                   /\ UNCHANGED lastErr
             [] entry = "raise" ->
                   /\ StageRaises([ stage |-> CurStage, attempt |-> 1,
                                    kind |-> "ValueError" ])
                   /\ lastErr' = [ stage |-> CurStage, attempt |-> 1,
                                   kind |-> "ValueError" ]
                   /\ outcomes' = << "fail" >>
                   /\ wait' = [ wait EXCEPT !.entered = TRUE, !.entry = clock ]
             [] entry = "loop" ->
                   /\ pc' = "wait_loop"
                   /\ outcomes' = << >>
                   /\ wait' = [ wait EXCEPT !.entered = TRUE, !.entry = clock ]
                   /\ UNCHANGED << returned, idx, outcome, fatal, lastErr >>
    /\ UNCHANGED << cfg, session, clock, exit, retries, shots, backoffs,
                    allFirst, cancelAt >>
    /\ UNCHANGED << loginTried, parts >>

\* Lines 895-909: one iteration of the loop; a sleep lasts exactly the time
\* asked for.
WaitLoop ==
    /\ pc = "wait_loop"
    /\ LET st == WaitStep(cfg.drop_time.at - clock)
       IN  IF st.kind = "break"
           THEN /\ StageReturns
                /\ outcomes' = << "ok" >>
                /\ wait' = [ wait EXCEPT !.done = TRUE, !.ret = clock ]
                /\ UNCHANGED clock
           ELSE /\ clock' = clock + st.sleep
                /\ wait' = [ wait EXCEPT
                               !.sleeps = @ + 1,
                               !.keepalives = @ + (IF st.keepalive THEN 1 ELSE 0) ]
                /\ UNCHANGED << pc, returned, idx, outcome, fatal, outcomes >>
    /\ UNCHANGED << cfg, session, attempt, exit, lastErr, begun, invoked,
                    retries, shots, backoffs, allFirst, cancelAt >>
    /\ UNCHANGED << loginTried, parts >>

(* -------------------------- navigate_to_shoe --------------------------- *)

\* Lines 920-924: the stage runs its own loop; with an empty range it falls
\* through to the RuntimeError of line 948.
NavigateToShoe ==
    /\ pc = "stage"
    /\ CurStage = "navigate_to_shoe"
    /\ begun' = Append(begun, CurStage)
    /\ outcomes' = << >>
    /\ attempt' = 1
    /\ IF RetryLoopEnters(cfg.retry_limit)
       THEN /\ pc' = "nav_attempt"
            /\ UNCHANGED << returned, idx, outcome, fatal, lastErr >>
       ELSE /\ StageRaises([ stage |-> CurStage, attempt |-> 0,
                             kind |-> "RuntimeError" ])
            /\ UNCHANGED lastErr
    /\ UNCHANGED << cfg, session, clock, exit, invoked, retries, shots,
                    backoffs, wait, allFirst, cancelAt >>
    /\ UNCHANGED << loginTried, parts >>

\* Lines 925-948: one load of the page. Only TimeoutException is caught.
NavAttempt ==
    /\ pc = "nav_attempt"
    /\ \E o \in NavObs :
          LET step == NavStep(attempt, cfg.retry_limit, o)
          IN  /\ outcomes' = Append(outcomes, IF o = "found" THEN "ok" ELSE "fail")
              /\ invoked' = invoked \cup { CurStage }
              /\ allFirst' = (allFirst /\ o = "found")
              /\ CASE step = "return" ->
                        /\ StageReturns
                        /\ UNCHANGED << lastErr, shots, clock, attempt, retries >>
                   [] step = "raise" ->
                        /\ lastErr' = [ stage |-> CurStage, attempt |-> attempt,
                                        kind |-> "WebDriverException" ]
                        /\ StageRaises(lastErr')
                        /\ UNCHANGED << shots, clock, attempt, retries >>
                   [] step = "exhausted" ->
                        /\ lastErr' = [ stage |-> CurStage, attempt |-> attempt,
                                        kind |-> "TimeoutException" ]
                        /\ shots' = [ shots EXCEPT !.nav = @ + 1 ]
                        /\ Tick(RefreshInterval)
                        /\ StageRaises([ stage |-> CurStage, attempt |-> attempt,
                                         kind |-> "RuntimeError" ])
                        /\ UNCHANGED << attempt, retries >>
                   [] step = "next" ->
                        /\ lastErr' = [ stage |-> CurStage, attempt |-> attempt,
                                        kind |-> "TimeoutException" ]
                        /\ shots' = [ shots EXCEPT !.nav = @ + 1 ]
                        /\ Tick(RefreshInterval)
                        /\ attempt' = attempt + 1
                        /\ retries' = retries + 1
                        /\ UNCHANGED << pc, returned, idx, outcome, fatal >>
    /\ UNCHANGED << cfg, session, exit, begun, backoffs, wait, cancelAt >>
    /\ UNCHANGED << loginTried, parts >>

(* --------------------------- cancellation ------------------------------ *)

\* KeyboardInterrupt inside the try block: no handler below start() catches
\* it (every one is `except Exception` or narrower); lines 515-516 do.
InterruptInTry ==
    /\ pc \in { "stage", "attempt", "backoff", "wait_loop", "nav_attempt" }
    /\ outcome' = "cancelled"
    /\ pc' = "final_shot"
    /\ IF pc \in { "attempt", "nav_attempt" }
       THEN /\ outcomes' = Append(outcomes, "interrupt")
            /\ invoked' = invoked \cup { CurStage }
       ELSE UNCHANGED << outcomes, invoked >>
    /\ cancelAt' = [ pc |-> pc, begun |-> Len(begun),
                     calls |-> Len(outcomes'), retries |-> retries,
                     backoffs |-> backoffs, retryShots |-> shots.retry ]
    /\ UNCHANGED << cfg, idx, session, attempt, clock, exit, fatal, lastErr,
                    begun, returned, retries, shots, backoffs, wait, allFirst >>
    /\ loginTried' = (IF pc = "attempt" /\ CurStage = "login"
                      THEN RunStrategies(loginTried, << LoginStrategies[1] >>)
                      ELSE loginTried)
    /\ UNCHANGED parts

\* KeyboardInterrupt inside the finally block's screenshot (line 520), whose
\* `except Exception` does not catch it: it leaves start().
InterruptInFinally ==
    /\ pc = "final_shot"
    /\ pc' = "done"
    /\ exit' = "raised"
    /\ UNCHANGED << cfg, idx, session, attempt, clock, outcome, fatal, lastErr,
                    begun, returned, invoked, outcomes, retries, shots,
                    backoffs, wait, allFirst, cancelAt >>
    /\ UNCHANGED << loginTried, parts >>

(* ------------------------------ cleanup -------------------------------- *)

\* Line 520: the final screenshot; its own failure is swallowed.
FinalScreenshot ==
    /\ pc = "final_shot"
    /\ shots' = [ shots EXCEPT !.final = @ + 1 ]
    /\ pc' = "prompt"
    /\ UNCHANGED << cfg, idx, session, attempt, clock, outcome, exit, fatal,
                    lastErr, begun, returned, invoked, outcomes, retries,
                    backoffs, wait, allFirst, cancelAt >>
    /\ UNCHANGED << loginTried, parts >>

\* Line 521: input() returns when the operator presses Enter; it raises
\* EOFError when stdin is at end of file and KeyboardInterrupt on Ctrl+C,
\* and either one leaves start() before line 522.
Prompt ==
    /\ pc = "prompt"
    /\ \E r \in { "enter", "eof", "interrupt" } :
          IF r = "enter"
          THEN /\ pc' = "quit"
               /\ exit' = exit
          ELSE /\ pc' = "done"
               /\ exit' = "raised"
    /\ UNCHANGED << cfg, idx, session, attempt, clock, outcome, fatal, lastErr,
                    begun, returned, invoked, outcomes, retries, shots,
                    backoffs, wait, allFirst, cancelAt >>
    /\ UNCHANGED << loginTried, parts >>

\* Line 522: the browser session is released and start() returns.
Quit ==
    /\ pc = "quit"
    /\ session' = "closed"
    /\ pc' = "done"
    /\ exit' = "returned"
    /\ UNCHANGED << cfg, idx, attempt, clock, outcome, fatal, lastErr, begun,
                    returned, invoked, outcomes, retries, shots, backoffs,
                    wait, allFirst, cancelAt >>
    /\ UNCHANGED << loginTried, parts >>

Next ==
    \/ ValidateConfig
    \/ CreateDriver
    \/ SetupHelpers
    \/ EnterRetry
    \/ Attempt
    \/ Backoff
    \/ WaitForDrop
    \/ WaitLoop
    \/ NavigateToShoe
    \/ NavAttempt
    \/ InterruptInTry
    \/ InterruptInFinally
    \/ FinalScreenshot
    \/ Prompt
    \/ Quit

Spec == Init /\ [][Next]_vars

(* ============================== claims ================================= *)

LastBegun == begun[Len(begun)]

TryEnded == pc \in { "final_shot", "prompt", "quit", "done" } /\ session # "none"

\* C1: in every run of start() the stages begin in the fixed order login,
\* wait_for_drop, navigate_to_shoe, select_size, add_to_cart, begin_checkout,
\* fill_shipping, fill_payment, submit_order; a stage begins only after the
\* stage before it has returned normally; once a stage has failed fatally,
\* that stage stays the last one begun.
C1_StagesInOrder ==
    /\ Len(begun) <= Len(StageOrder)
    /\ begun = SubSeq(StageOrder, 1, Len(begun))
    /\ \A i \in 1..(Len(begun) - 1) : begun[i] \in returned
    /\ outcome = "fatal" =>
          /\ begun # << >>
          /\ fatal.stage = LastBegun
          /\ LastBegun \notin returned
          /\ pc \in { "final_shot", "prompt", "quit", "done" }

C1_Witness ==
    /\ pc = "done"
    /\ outcome = "fatal"
    /\ fatal.stage = "add_to_cart"
    /\ begun = SubSeq(StageOrder, 1, 5)

\* C2: when _retry has finished for a stage function that failed on every
\* invocation, the function was invoked exactly retry_limit times and the
\* error that left _retry is the one the last invocation raised.
C2_AlwaysFailingStage ==
    ( /\ begun # << >>
      /\ LastBegun \in Wrapped
      /\ (LastBegun \in returned \/ outcome = "fatal")
      /\ \A i \in DOMAIN outcomes : outcomes[i] = "fail" )
    => /\ Len(outcomes) = cfg.retry_limit
       /\ outcome = "fatal"
       /\ fatal.stage = LastBegun
       /\ fatal.attempt = Len(outcomes)
       /\ fatal = lastErr

\* C3: for a wrapped stage whose function fails on attempts 1..k-1 and
\* succeeds on attempt k, k is at most retry_limit, the function is invoked
\* exactly k times (none after the success), _retry returns and no error
\* propagates.
C3_SucceedsOnAttemptK ==
    (begun # << >> /\ LastBegun \in Wrapped) =>
        \A k \in DOMAIN outcomes :
            outcomes[k] = "ok" =>
                /\ k = Len(outcomes)
                /\ k <= cfg.retry_limit
                /\ \A j \in 1..(k - 1) : outcomes[j] = "fail"
                /\ LastBegun \in returned
                /\ fatal = NoErr
                /\ outcome # "fatal"

C3_Witness ==
    /\ begun # << >>
    /\ LastBegun = "select_size"
    /\ outcomes = << "fail", "fail", "ok" >>
    /\ LastBegun \in returned

\* C4: every run in which the browser session was created ends with the
\* final screenshot taken and the session released by quit().
C4_SessionAlwaysReleased ==
    (pc = "done" /\ session # "none") =>
        (shots.final >= 1 /\ session = "closed")

\* C5: a KeyboardInterrupt received during a stage attempt ends the run at
\* once: _retry takes no failure screenshot and no backoff for it, no retry
\* is consumed, no further invocation and no later stage begins, and the
\* cleanup (final screenshot, then quit) still runs.
C5_CancelDuringAttempt ==
    cancelAt.pc \in { "attempt", "nav_attempt" } =>
        /\ outcome = "cancelled"
        /\ retries = cancelAt.retries
        /\ backoffs = cancelAt.backoffs
        /\ shots.retry = cancelAt.retryShots
        /\ Len(outcomes) = cancelAt.calls
        /\ Len(begun) = cancelAt.begun
        /\ pc \in { "final_shot", "prompt", "quit", "done" }
        /\ pc = "done" => (shots.final >= 1 /\ session = "closed")

\* A required value (email, password, product URL, variant) is missing.
MissingRequired ==
    ~cfg.email \/ ~cfg.password \/ ~cfg.shoe_url \/ ~cfg.shoe_size

\* C6: when a required value is missing, the run ends with the configuration
\* error raised out of start() before the browser session is created and
\* before any stage begins; nothing is invoked, retried or captured.
C6_ConfigErrorBeforeAnyStage ==
    MissingRequired =>
        /\ pc \in { "validate", "done" }
        /\ session = "none"
        /\ begun = << >>
        /\ invoked = {}
        /\ retries = 0
        /\ backoffs = 0
        /\ shots = NoShots
        /\ pc = "done" => (outcome = "config_error" /\ exit = "raised")

C6_Witness ==
    /\ pc = "done"
    /\ outcome = "config_error"
    /\ cfg.email /\ cfg.password /\ cfg.shoe_url /\ ~cfg.shoe_size

HappyScenario ==
    /\ cfg.drop_time.kind = "unset"
    /\ allFirst
    /\ cancelAt = NoCancel

AllStagesOnce ==
    /\ outcome = "completed"
    /\ returned = Stages
    /\ invoked = Stages
    /\ retries = 0
    /\ backoffs = 0
    /\ shots.retry = 0
    /\ shots.nav = 0

C9_NoWaitWhenPast ==
    ( /\ wait.entered
      /\ \/ cfg.drop_time.kind = "unset"
         \/ (cfg.drop_time.kind = "at" /\ cfg.drop_time.at <= wait.entry) )
    => /\ wait.done
       /\ "wait_for_drop" \in returned
       /\ wait.ret = wait.entry
       /\ wait.sleeps = 0
       /\ wait.keepalives = 0

C9_Witness ==
    /\ wait.done
    /\ cfg.drop_time.kind = "at"
    /\ cfg.drop_time.at > 0
    /\ cfg.drop_time.at <= wait.entry
    /\ wait.sleeps = 0

\* C10: for a release time in the future on entry, with every sleep lasting
\* exactly the time asked for, wait_for_drop does not return before the
\* release time and returns at most one short tick (1 s) after it.
C10_WaitEndsAtTarget ==
    (wait.done /\ cfg.drop_time.kind = "at" /\ cfg.drop_time.at > wait.entry)
    => /\ cfg.drop_time.at <= wait.ret
       /\ wait.ret <= cfg.drop_time.at + ShortSleep

C10_Witness ==
    /\ wait.done
    /\ cfg.drop_time.kind = "at"
    /\ cfg.drop_time.at = FarTarget
    /\ wait.entry = 0
    /\ wait.ret >= FarTarget
    /\ wait.keepalives = 1

(* =================== the 2FA wait, lines 804-822 ======================= *)

\* start_time values the loop is examined with (time.time() at line 807).
TfaStarts == { 0, 1234 }

\* Line 807: the 2FA screen is showing and the loop starts.
Init2FA ==
    /\ OnlyTfa
    /\ \E t \in TfaStarts :
          tfa = [ TfaIdle EXCEPT !.pc = "loop", !.start = t, !.now = t ]

\* Lines 809-817: the while test, the poll of _is_on_login_page (lines
\* 846-849) and what follows it. No time passes between the test and the
\* poll.
TfaPass ==
    /\ tfa.pc = "loop"
    /\ LET elapsed == tfa.now - tfa.start
           step == TwoFactorStep(elapsed, tfa.on_login)
           polled == [ tfa EXCEPT
                         !.polls = @ + 1,
                         !.last_poll = tfa.now,
                         !.gap_ok = (@ /\ (tfa.last_poll = 0 - 1
                                           \/ tfa.now - tfa.last_poll = PollSleep2FA)) ]
       IN  CASE step = "raise" ->
                   tfa' = [ tfa EXCEPT !.pc = "done", !.result = "timeout" ]
             [] step = "return" ->
                   tfa' = [ polled EXCEPT !.pc = "done", !.result = "returned" ]
             [] step = "sleep" ->
                   tfa' = [ polled EXCEPT !.pc = "sleep" ]
    /\ UNCHANGED butTfa

\* Line 817: time.sleep(2) lasts exactly the time asked for.
TfaSleep ==
    /\ tfa.pc = "sleep"
    /\ tfa' = [ tfa EXCEPT !.pc = "loop", !.now = @ + PollSleep2FA ]
    /\ UNCHANGED butTfa

\* The operator enters the code and the browser leaves the login pages; it
\* can happen at any moment, the sleep of line 817 included.
TfaLeaveLogin ==
    /\ tfa.pc \in { "loop", "sleep" }
    /\ tfa.on_login
    /\ tfa' = [ tfa EXCEPT !.on_login = FALSE, !.left_at = tfa.now ]
    /\ UNCHANGED butTfa

Next2FA ==
    \/ TfaPass
    \/ TfaSleep
    \/ TfaLeaveLogin

Spec2FA == Init2FA /\ [][Next2FA]_vars

TfaCeiling == tfa.start + MaxWait2FA

\* C11: when the location stops matching the login-page patterns at any
\* moment before the 5-minute ceiling, the moments between the last poll
\* and the ceiling included, the attempt returns and never fails with the
\* 2FA timeout.
C11_LeftBeforeCeilingReturns ==
    (tfa.left_at >= 0 /\ tfa.left_at < TfaCeiling) => tfa.result # "timeout"

\* C12: when every poll finds a login page the attempt ends with the 2FA
\* timeout, and the timeout is raised only once 300 s have passed since the
\* loop started, never before; the polls are 2 s apart.
C12_TimeoutOnlyAtCeiling ==
    /\ tfa.gap_ok
    /\ tfa.polls > 0 => tfa.last_poll < TfaCeiling
    /\ tfa.result = "timeout" =>
          /\ tfa.now - tfa.start >= MaxWait2FA
          /\ tfa.polls * PollSleep2FA >= MaxWait2FA
    /\ (tfa.pc = "done" /\ tfa.on_login) => tfa.result = "timeout"

C12_Witness ==
    /\ tfa.result = "timeout"
    /\ tfa.on_login
    /\ tfa.polls > 1

(* ====================== login strategy and exit ======================== *)

BudgetExhausted ==
    /\ outcome = "fatal"
    /\ fatal.stage \in Wrapped
    /\ cfg.retry_limit >= 1
    /\ fatal.attempt = cfg.retry_limit

\* C19: a run in which a stage exhausted its retry budget, and whose final
\* capture and session teardown took place, ends with an exit status other
\* than the 0 of a completed run.
C19_ExhaustedRunExitsNonZero ==
    (pc = "done" /\ BudgetExhausted /\ shots.final > 0 /\ session = "closed")
        => MainExitStatus(exit) # 0

(* ============== _find_first_element, lines 862-871 ===================== *)

\* The longest page examined, in elements.
MaxElements == 3

\* CSS selectors a chain is made of (two of the email chain, lines 601-602).
Selectors == { "type_email", "name_emailAddress" }

\* An element of the page: whether is_displayed() answers True, and the
\* selectors that match it. A page is its elements in document order.
Elements == [ visible : BOOLEAN, matches : SUBSET Selectors ]
Pages == UNION { [ 1..n -> Elements ] : n \in 0..MaxElements }

\* A chain lists selectors in priority order, none twice.
Chains ==
    { ch \in UNION { [ 1..n -> Selectors ] : n \in 1..Cardinality(Selectors) } :
         \A i, j \in 1..Len(ch) : ch[i] = ch[j] => i = j }

\* driver.find_element(By.CSS_SELECTOR, sel): the first element in document
\* order that matches, 0 for NoSuchElementException.
FindElement(page, sel) ==
    LET hits == { i \in 1..Len(page) : sel \in page[i].matches }
    IN  IF hits = {} THEN 0 ELSE CHOOSE i \in hits : \A j \in hits : i <= j

\* Lines 864-871: the loop over the chain from candidate k on; 0 is None.
RECURSIVE FindFirstFrom(_, _, _)
FindFirstFrom(chain, page, k) ==
    IF k > Len(chain) THEN 0
    ELSE LET el == FindElement(page, chain[k])
         IN  IF el # 0 /\ page[el].visible THEN el
             ELSE FindFirstFrom(chain, page, k + 1)

FindFirstElement(chain, page) == FindFirstFrom(chain, page, 1)

InitResolver ==
    /\ OnlyRes
    /\ \E ch \in Chains, pg \in Pages :
          res = [ pc |-> "call", chain |-> ch, page |-> pg, result |-> 0,
                  again |-> 0 ]

\* _find_first_element is called on the page.
Resolve ==
    /\ res.pc = "call"
    /\ res' = [ res EXCEPT !.pc = "called",
                           !.result = FindFirstElement(res.chain, res.page) ]
    /\ UNCHANGED butRes

\* It is called a second time, chain and page unchanged.
ResolveAgain ==
    /\ res.pc = "called"
    /\ res' = [ res EXCEPT !.pc = "twice",
                           !.again = FindFirstElement(res.chain, res.page) ]
    /\ UNCHANGED butRes

NextResolver ==
    \/ Resolve
    \/ ResolveAgain

SpecResolver == InitResolver /\ [][NextResolver]_vars

\* The positions in the chain of the candidates that match a visible
\* element of the page.
VisibleCandidates ==
    { k \in 1..Len(res.chain) :
         \E i \in 1..Len(res.page) :
            res.page[i].visible /\ res.chain[k] \in res.page[i].matches }

\* C15: when several candidates of the chain match a visible element, the
\* element returned is a visible one matched by the earliest-listed of
\* them, and a second call on the same chain and page returns the same
\* element.
C15_EarliestVisibleCandidateWins ==
    /\ (res.pc \in { "called", "twice" } /\ Cardinality(VisibleCandidates) >= 2) =>
          LET first == CHOOSE k \in VisibleCandidates :
                          \A j \in VisibleCandidates : k <= j
          IN  /\ res.result # 0
              /\ res.page[res.result].visible
              /\ res.chain[first] \in res.page[res.result].matches
    /\ res.pc = "twice" => res.again = res.result

\* C16: none is returned only when no candidate matches a visible element;
\* when some candidate matches at least one visible element, even behind a
\* hidden first match, a visible match is returned.
C16_NoneOnlyWhenNothingVisible ==
    res.pc \in { "called", "twice" } =>
        /\ res.result = 0 => VisibleCandidates = {}
        /\ VisibleCandidates # {} =>
              /\ res.result # 0
              /\ res.page[res.result].visible

(* ================= select_size, lines 956-1003 ========================= *)

\* Strings are sequences of characters, so that the substring tests of the
\* selectors and of line 992 are computed and not assumed.
Str9 == << "9" >>
Str10 == << "1", "0" >>
Str10h == << "1", "0", ".", "5" >>
StrUS == << "U", "S", " " >>

\* The variant values on offer and the values shoe_size is examined with.
Sizes == { Str9, Str10, Str10h }

Contains(s, t) ==
    \E i \in 0..(Len(s) - Len(t)) : SubSeq(s, i + 1, i + Len(t)) = t

EndsWith(s, t) ==
    Len(s) >= Len(t) /\ SubSeq(s, Len(s) - Len(t) + 1, Len(s)) = t

\* How a size button is labelled: its text and its aria-label ("" when the
\* attribute is missing, line 988).
LabelStyles == { "text_only", "plain", "us", "us_text_only" }

ButtonText(b) ==
    IF b.style \in { "us", "us_text_only" } THEN StrUS \o b.size ELSE b.size

ButtonAria(b) ==
    CASE b.style = "plain" -> b.size
      [] b.style = "us" -> StrUS \o b.size
      [] OTHER -> << >>

\* What makes the element a size button for the selectors: the attribute
\* data-qa="size-available", the class size-grid-button, or only a class
\* that contains "size".
Markers == { "qa", "grid", "class" }

SizeButtons == [ size : Sizes, style : LabelStyles, marker : Markers ]

\* A size grid in document order: every variant at most once, every button
\* displayed and enabled.
SizeGrids ==
    { g \in UNION { [ 1..n -> SizeButtons ] : n \in 1..Cardinality(Sizes) } :
         \A i, j \in 1..Len(g) : g[i].size = g[j].size => i = j }

\* Lines 960-965: does the k-th selector of Strategy A match the button?
StrategyAMatches(k, b, target) ==
    CASE k = 1 -> b.marker = "qa" /\ Contains(ButtonAria(b), target)
      [] k = 2 -> b.marker = "grid" /\ Contains(ButtonAria(b), target)
      [] k = 3 -> ButtonAria(b) = StrUS \o target
      [] k = 4 -> ButtonAria(b) = << "M", " " >> \o target \o << " ", "/", " ", "W" >>

\* Lines 966-976: the first selector with a match wins, and its first match
\* in document order is clicked; 0 when no selector matches.
RECURSIVE StrategyAFrom(_, _, _)
StrategyAFrom(k, grid, target) ==
    IF k > 4 THEN 0
    ELSE LET hits == { i \in 1..Len(grid) : StrategyAMatches(k, grid[i], target) }
         IN  IF hits # {} THEN CHOOSE i \in hits : \A j \in hits : i <= j
             ELSE StrategyAFrom(k + 1, grid, target)

\* Lines 989-993: the test of Strategy B on one button.
StrategyBMatches(b, target) ==
    \/ ButtonText(b) = target
    \/ EndsWith(ButtonText(b), << " " >> \o target)
    \/ Contains(ButtonAria(b), target)

\* Lines 979-1003: every button of the grid is selected by line 979; the
\* first that passes the test is clicked; 0 is the raise of line 1000.
StrategyB(grid, target) ==
    LET hits == { i \in 1..Len(grid) : StrategyBMatches(grid[i], target) }
    IN  IF hits = {} THEN 0 ELSE CHOOSE i \in hits : \A j \in hits : i <= j

\* _do_select: the position of the button clicked, 0 when it raises.
SelectSize(grid, target) ==
    LET a == StrategyAFrom(1, grid, target)
    IN  IF a # 0 THEN a ELSE StrategyB(grid, target)

InitSelect ==
    /\ OnlyPick
    /\ \E g \in SizeGrids, t \in Sizes :
          pick = [ pc |-> "call", grid |-> g, target |-> t, clicked |-> 0 ]

\* One attempt of select_size on the grid.
SelectAttempt ==
    /\ pick.pc = "call"
    /\ LET c == SelectSize(pick.grid, pick.target)
       IN  pick' = [ pick EXCEPT !.pc = IF c = 0 THEN "raised" ELSE "returned",
                                 !.clicked = c ]
    /\ UNCHANGED butPick

NextSelect == SelectAttempt

SpecSelect == InitSelect /\ [][NextSelect]_vars

\* C13: whenever select_size clicks a variant, the variant clicked is the
\* one whose value is exactly the target; a variant whose label merely
\* contains the target inside another value (10.5 for 10) is never
\* clicked, whatever the order of the buttons.
C13_ClicksExactSize ==
    pick.pc = "returned" => pick.grid[pick.clicked].size = pick.target

(* ================ fill_shipping, lines 1084-1118 ======================= *)

\* Two of the eight entries of field_map, in the order of the dict: a
\* required one and the optional second address line.
ShipFieldOrder == << "firstName", "address2" >>
ShipFields == { ShipFieldOrder[i] : i \in 1..Len(ShipFieldOrder) }

\* The checkout page at the start of an attempt: which payment-stage marker
\* it shows (lines 1264-1265), how each field is present, and whether one of
\* the continue selectors of lines 1242-1249 has a clickable match.
ShipPages ==
    [ marker : { "none", "data_qa_payment", "card_iframe" },
      field : [ ShipFields -> { "visible", "hidden", "absent" } ],
      continue_btn : BOOLEAN ]

\* Which profile values are non-empty (line 1103).
ShipProfiles == [ ShipFields -> BOOLEAN ]

\* Lines 1261-1270 for step "shipping": element_exists (lines 300-305) on
\* each indicator.
ShippingAlreadyCompleteQaOnly(page) == page.marker = "data_qa_payment"
ShippingAlreadyComplete(page) ==
    page.marker \in { "data_qa_payment", "card_iframe" }

\* Lines 1102-1113 for one entry: what happens to the field.
FieldStep(page, profile, f) ==
    IF ~profile[f] THEN "skip"
    ELSE IF page.field[f] = "visible" THEN "type"
    ELSE "skip"

\* Lines 1240-1259: True when a control was clicked; finding none is only
\* logged.
ClickContinueButton(page) == page.continue_btn

InitShipping ==
    /\ OnlyShip
    /\ \E pg \in ShipPages, pr \in ShipProfiles :
          ship = [ pc |-> "begin", page |-> pg, profile |-> pr, next |-> 1,
                   writes |-> {}, clicked |-> FALSE, advanced |-> FALSE,
                   result |-> "none" ]

\* Lines 1085-1089: the idempotence check.
ShipBegin ==
    /\ ship.pc = "begin"
    /\ IF ShippingAlreadyComplete(ship.page)
       THEN ship' = [ ship EXCEPT !.pc = "done", !.result = "ok" ]
       ELSE ship' = [ ship EXCEPT !.pc = "fill" ]
    /\ UNCHANGED butShip

\* Lines 1102-1113: one entry of field_map; typing into the element may
\* raise, which ends the attempt.
ShipFillField ==
    /\ ship.pc = "fill"
    /\ ship.next <= Len(ShipFieldOrder)
    /\ LET f == ShipFieldOrder[ship.next]
       IN  IF FieldStep(ship.page, ship.profile, f) = "type"
           THEN \E typed \in BOOLEAN :
                   IF typed
                   THEN ship' = [ ship EXCEPT !.writes = @ \cup { f },
                                              !.next = @ + 1 ]
                   ELSE ship' = [ ship EXCEPT !.pc = "done",
                                              !.result = "raised" ]
           ELSE ship' = [ ship EXCEPT !.next = @ + 1 ]
    /\ UNCHANGED butShip

\* Lines 1115-1118: the continue helper, the sleep, the log line and the
\* return. Whether the page has moved on to the payment step by then is up
\* to the site: a clicked form can be rejected, an unclicked one can
\* advance by itself.
ShipContinue ==
    /\ ship.pc = "fill"
    /\ ship.next > Len(ShipFieldOrder)
    /\ \E adv \in BOOLEAN :
          ship' = [ ship EXCEPT !.pc = "done",
                                !.clicked = ClickContinueButton(ship.page),
                                !.advanced = adv,
                                !.result = "ok" ]
    /\ UNCHANGED butShip

NextShipping ==
    \/ ShipBegin
    \/ ShipFillField
    \/ ShipContinue

SpecShipping == InitShipping /\ [][NextShipping]_vars

\* C14: when a payment-stage marker is present at the start of a shipping
\* attempt, the attempt completes successfully with no field write and
\* without clicking continue.
C14_ShippingSkippedWhenComplete ==
    ship.page.marker # "none" =>
        /\ ship.writes = {}
        /\ ~ship.clicked
        /\ ship.pc \in { "begin", "done" }
        /\ ship.pc = "done" => ship.result = "ok"

C14_Witness ==
    /\ ship.pc = "done"
    /\ ship.page.marker = "card_iframe"
    /\ ship.result = "ok"
    /\ \A f \in ShipFields : FieldStep(ship.page, ship.profile, f) = "type"
    /\ ship.page.continue_btn

\* C20: a shipping attempt that went through the fields reports success
\* only if the flow has moved past the shipping step after the continue
\* helper; in particular not when no continue control was found and the
\* page did not advance.
C20_ShippingSuccessMeansProgress ==
    (ship.pc = "done" /\ ship.result = "ok" /\ ship.writes # {})
        => ship.advanced

(* ================ NikeAPILogin.login, lines 337-449 ==================== *)

\* The most cookies a response carries.
MaxRespCookies == 2

\* What requests.post (lines 376-381) comes back with: an exception of the
\* transport (connection, timeout), or a response with a status code.
Replies ==
    { [ kind |-> "error", code |-> 0 ] }
        \cup { [ kind |-> "status", code |-> c ] : c \in { 200, 401, 500 } }

\* The body of the response: a JSON object with or without access_token,
\* JSON that is not an object, or no JSON at all.
Bodies == { "token", "no_token", "not_object", "not_json" }

\* Lines 383-393 and the handler of lines 395-397, for the reply alone.
PostStepNoHandler(reply) ==
    IF reply.kind = "error" THEN "raise"
    ELSE IF reply.code = 200 THEN "inject"
    ELSE "false"
PostStep(reply) ==
    IF reply.kind = "error" THEN "false"
    ELSE IF reply.code = 200 THEN "inject"
    ELSE "false"

NoWrites == [ cookies |-> 0, access_token |-> FALSE, local_storage |-> FALSE ]

InitApi ==
    /\ OnlyApi
    /\ \E r \in Replies, b \in Bodies, n \in 0..MaxRespCookies :
          api = [ pc |-> "prepare", reply |-> r, body |-> b, cookies |-> n,
                  posted |-> FALSE, written |-> NoWrites, steps |-> {},
                  refreshed |-> FALSE, result |-> "none" ]

\* The handler of lines 395-397: the call returns False.
ApiFails == [ api EXCEPT !.pc = "done", !.result = "false" ]

\* Lines 343-374: the visit of nike.com (its failure is swallowed), the
\* user agent and the cookies read from the browser; the two reads can
\* raise.
ApiPrepare ==
    /\ api.pc = "prepare"
    /\ \E ok \in BOOLEAN :
          api' = IF ok THEN [ api EXCEPT !.pc = "post" ] ELSE ApiFails
    /\ UNCHANGED butApi

\* Lines 376-393: the request and the test of the status code.
ApiPost ==
    /\ api.pc = "post"
    /\ LET step == PostStep(api.reply)
       IN  CASE step = "inject" ->
                   api' = [ api EXCEPT !.pc = "parse", !.posted = TRUE ]
             [] step = "false" ->
                   api' = [ ApiFails EXCEPT !.posted = TRUE ]
             [] step = "raise" ->
                   api' = [ api EXCEPT !.pc = "done", !.posted = TRUE,
                                       !.result = "raised" ]
    /\ UNCHANGED butApi

\* Line 385: response.json() raises on a body that is not JSON.
ApiParse ==
    /\ api.pc = "parse"
    /\ api' = IF api.body = "not_json" THEN ApiFails
              ELSE [ api EXCEPT !.pc = "cookies" ]
    /\ UNCHANGED butApi

\* Lines 411-421: every response cookie is handed to add_cookie; a failed
\* write is swallowed.
ApiAddCookies ==
    /\ api.pc = "cookies"
    /\ \E n \in 0..api.cookies :
          api' = [ api EXCEPT !.pc = "token", !.written.cookies = n,
                              !.steps = @ \cup { "cookies" } ]
    /\ UNCHANGED butApi

\* Lines 424-434: auth_data.get raises when the body is not an object, and
\* that leaves _inject_session; the write of the token is swallowed when it
\* fails.
ApiAddToken ==
    /\ api.pc = "token"
    /\ CASE api.body = "not_object" -> api' = ApiFails
         [] api.body = "no_token" ->
               api' = [ api EXCEPT !.pc = "storage",
                                   !.steps = @ \cup { "access_token" } ]
         [] OTHER ->
               \E ok \in BOOLEAN :
                  api' = [ api EXCEPT !.pc = "storage",
                                      !.written.access_token = ok,
                                      !.steps = @ \cup { "access_token" } ]
    /\ UNCHANGED butApi

\* Lines 437-444: the local-storage entry; a failed write is swallowed.
ApiSetStorage ==
    /\ api.pc = "storage"
    /\ \E ok \in BOOLEAN :
          api' = [ api EXCEPT !.pc = "refresh", !.written.local_storage = ok,
                              !.steps = @ \cup { "local_storage" } ]
    /\ UNCHANGED butApi

\* Lines 447-448 and 388: the reload is not protected inside
\* _inject_session; when it raises, the handler of login() returns False.
ApiRefresh ==
    /\ api.pc = "refresh"
    /\ \E ok \in BOOLEAN :
          api' = IF ok
                 THEN [ api EXCEPT !.pc = "done", !.refreshed = TRUE,
                                   !.result = "true" ]
                 ELSE ApiFails
    /\ UNCHANGED butApi

NextApi ==
    \/ ApiPrepare
    \/ ApiPost
    \/ ApiParse
    \/ ApiAddCookies
    \/ ApiAddToken
    \/ ApiSetStorage
    \/ ApiRefresh

SpecApi == InitApi /\ [][NextApi]_vars

\* login() never raises, and a transport error or a status other than 200
\* makes it return False.
ApiFalseOnFailure ==
    /\ api.result # "raised"
    /\ (api.pc = "done" /\ (api.reply.kind = "error" \/ api.reply.code # 200))
          => api.result = "false"

\* Some artifact of the session is in the browser.
SessionInBrowser ==
    \/ api.written.cookies > 0
    \/ api.written.access_token
    \/ api.written.local_storage

InNavigate == begun # << >> /\ LastBegun = "navigate_to_shoe"

\* Loads of the product page of the stage so far, and those whose wait
\* timed out (any other error ends the stage at once, so it is the last).
NavLoads == Len(outcomes)
NavTimeouts ==
    Cardinality({ i \in 1..Len(outcomes) : outcomes[i] = "fail" })
        - (IF fatal.stage = "navigate_to_shoe" /\ fatal.kind = "WebDriverException"
           THEN 1 ELSE 0)

\* C23: the product page is loaded at most retry_limit times; every wait
\* that times out captures exactly one artifact and consumes one attempt;
\* the stage returns as soon as an indicator is found; after retry_limit
\* timed-out attempts it fails fatally.
C23_NavigateBounded ==
    InNavigate =>
        /\ NavLoads <= (IF cfg.retry_limit >= 0 THEN cfg.retry_limit ELSE 0)
        /\ shots.nav = NavTimeouts
        /\ pc = "nav_attempt" => attempt = NavTimeouts + 1
        /\ \A i \in 1..Len(outcomes) :
              outcomes[i] = "ok" =>
                  (i = Len(outcomes) /\ "navigate_to_shoe" \in returned)
        /\ "navigate_to_shoe" \in returned =>
              (outcomes # << >> /\ outcomes[Len(outcomes)] = "ok")
        /\ (cfg.retry_limit >= 1 /\ NavTimeouts = cfg.retry_limit) =>
              (outcome = "fatal" /\ fatal.stage = "navigate_to_shoe"
                 /\ fatal.kind = "RuntimeError")

C23_Witness ==
    /\ InNavigate
    /\ cfg.retry_limit >= 2
    /\ NavTimeouts = cfg.retry_limit
    /\ outcome = "fatal"

(* ============== _retry and _screenshot, lines 532-553 ================== *)

\* Lines 532-539: what a call of _screenshot does to its caller when the
\* capture was saved and when it failed (makedirs or save_screenshot
\* raised): the except clause swallows the failure.
ScreenshotStepRaises(capture) ==
    IF capture = "failed" THEN "raises" ELSE "returns"
ScreenshotStep(capture) == "returns"

Captures == { "saved", "failed" }

\* Exceptions a stage function raises (e.g. lines 609, 842).
FuncErrors == { "NoSuchElementException", "RuntimeError" }

\* _retry is called with a function whose results are drawn attempt by
\* attempt.
InitRetry ==
    /\ OnlyRc
    /\ \E l \in RetryLimits :
          rc = [ pc |-> "enter", limit |-> l, attempt |-> 0,
                 results |-> << >>, shots |-> 0, lost |-> 0, backoffs |-> 0,
                 result |-> "none", err |-> NoErr, cleanup |-> "none" ]

\* Line 542: the for loop starts, or the range is empty.
RcEnter ==
    /\ rc.pc = "enter"
    /\ rc' = IF RetryLoopEnters(rc.limit)
             THEN [ rc EXCEPT !.pc = "attempt", !.attempt = 1 ]
             ELSE [ rc EXCEPT !.pc = "final", !.result = "returned" ]
    /\ UNCHANGED butRc

\* Lines 543-552: func() and, when it raised, the handler: the capture of
\* line 550, then the re-raise of line 552 on the last attempt.
RcAttempt ==
    /\ rc.pc = "attempt"
    /\ \E r \in { "ok" } \cup FuncErrors, cap \in Captures :
          LET step == RetryStep(rc.attempt, rc.limit, r)
              called == [ rc EXCEPT !.results = Append(@, r) ]
              shot == [ called EXCEPT
                          !.shots = @ + 1,
                          !.lost = @ + (IF cap = "failed" THEN 1 ELSE 0) ]
          IN  IF step = "return"
              THEN rc' = [ called EXCEPT !.pc = "final", !.result = "returned" ]
              ELSE IF ScreenshotStep(cap) = "raises"
              THEN rc' = [ shot EXCEPT
                             !.pc = "final", !.result = "raised",
                             !.err = [ stage |-> "_screenshot",
                                       attempt |-> rc.attempt,
                                       kind |-> "WebDriverException" ] ]
              ELSE IF step = "raise"
              THEN rc' = [ shot EXCEPT
                             !.pc = "final", !.result = "raised",
                             !.err = [ stage |-> "func", attempt |-> rc.attempt,
                                       kind |-> r ] ]
              ELSE rc' = [ shot EXCEPT !.pc = "backoff" ]
    /\ UNCHANGED butRc

\* Line 553 and the next iteration.
RcBackoff ==
    /\ rc.pc = "backoff"
    /\ rc' = [ rc EXCEPT !.pc = "attempt", !.backoffs = @ + 1,
                         !.attempt = @ + 1 ]
    /\ UNCHANGED butRc

\* Line 520: the capture of the finally block of start(); line 521 is
\* reached when _screenshot returns.
RcFinalShot ==
    /\ rc.pc = "final"
    /\ \E cap \in Captures :
          rc' = [ rc EXCEPT
                    !.pc = "done",
                    !.lost = @ + (IF cap = "failed" THEN 1 ELSE 0),
                    !.cleanup = IF ScreenshotStep(cap) = "raises"
                                THEN "aborted" ELSE "continued" ]
    /\ UNCHANGED butRc

NextRetry ==
    \/ RcEnter
    \/ RcAttempt
    \/ RcBackoff
    \/ RcFinalShot

SpecRetry == InitRetry /\ [][NextRetry]_vars

RcFails == Cardinality({ i \in 1..Len(rc.results) : rc.results[i] # "ok" })

\* C27: every failed attempt makes exactly one capture (one call of
\* _screenshot, itself best effort); a backoff
\* sleep follows every failed attempt but the last, so a stage that fails
\* on all retry_limit attempts has produced retry_limit artifacts and
\* retry_limit - 1 backoffs when the error is re-raised.
C27_RetrySideEffects ==
    rc.pc # "idle" =>
        /\ rc.shots = RcFails
        /\ rc.backoffs =
              RcFails - (IF rc.pc = "backoff" \/ rc.result = "raised" THEN 1 ELSE 0)
        /\ rc.result = "raised" =>
              /\ RcFails = rc.limit
              /\ rc.shots = rc.limit
              /\ rc.backoffs = rc.limit - 1

C27_Witness ==
    /\ rc.result = "raised"
    /\ rc.limit = MaxRetryLimit
    /\ rc.backoffs = MaxRetryLimit - 1

\* What _retry does on the results of func() alone.
RcExpected ==
    IF \E i \in 1..Len(rc.results) : rc.results[i] = "ok" THEN "returned"
    ELSE IF rc.limit <= 0 THEN "returned"
    ELSE "raised"

\* C28: a failed capture is swallowed: whatever captures failed, _retry
\* ends as the results of the stage function alone dictate (same number of
\* attempts, the error propagated is the one of the last attempt), and the
\* cleanup goes on after the final capture.
C28_CaptureFailureSwallowed ==
    /\ rc.pc \in { "final", "done" } =>
          /\ rc.result = RcExpected
          /\ rc.result = "raised" =>
                /\ Len(rc.results) = rc.limit
                /\ rc.err = [ stage |-> "func", attempt |-> rc.limit,
                              kind |-> rc.results[rc.limit] ]
          /\ rc.result = "returned" =>
                (rc.err = NoErr /\ (rc.results = << >> \/
                                  rc.results[Len(rc.results)] = "ok"))
    /\ rc.pc = "done" => rc.cleanup = "continued"
    /\ rc.pc = "backoff" => rc.attempt < rc.limit

C28_Witness ==
    /\ rc.pc = "done"
    /\ rc.lost = rc.shots + 1
    /\ rc.shots >= 2
    /\ rc.result = "returned"
    /\ rc.cleanup = "continued"

(* ========== wait_for_drop, the loop of lines 895-907 =================== *)

\* A step of the run is one iteration of the loop that sleeps.
WaitIteration == pc = "wait_loop" /\ wait'.sleeps = wait.sleeps + 1

WaitRemaining == cfg.drop_time.at - clock

\* The keep-alive and the sleep of an iteration are the ones lines 899-907
\* prescribe for the remaining time computed at its start.
WaitIterationAsPrescribed ==
    /\ wait'.sleeps = wait.sleeps + 1
    /\ IF WaitRemaining > LongThreshold
       THEN /\ wait'.keepalives = wait.keepalives + 1
            /\ clock' - clock = Min(WaitRemaining - LongSleepMargin, LongSleepCap)
       ELSE /\ wait'.keepalives = wait.keepalives
            /\ clock' - clock =
                  (IF WaitRemaining > ShortThreshold THEN ShortSleep ELSE TickSleep)

\* C29: above 120 s remaining an iteration performs one keep-alive and one
\* sleep of min(remaining - 10, 60) s, remaining being recomputed at every
\* iteration; from 120 s on it only sleeps 1 s, or 0.05 s from 5 s on; no
\* sleep of the loop ends after the target.
C29_NoSleepEndsAfterTarget ==
    [][ WaitIteration =>
          (WaitIterationAsPrescribed /\ clock' <= cfg.drop_time.at) ]_vars

\* C29, amended: as above, but only the sleeps of the long phase and the
\* 1 s sleeps never end after the target; the last 0.05 s tick may end
\* after it, by less than 0.05 s.
C29_OnlyLastTickEndsAfterTarget ==
    [][ WaitIteration =>
          /\ WaitIterationAsPrescribed
          /\ WaitRemaining > ShortThreshold => clock' <= cfg.drop_time.at
          /\ clock' < cfg.drop_time.at + TickSleep ]_vars

C29_Witness ==
    /\ wait.done
    /\ wait.keepalives = 2
    /\ wait.sleeps > 3
    /\ wait.ret > cfg.drop_time.at

(* ================ _browser_login, lines 565-844 ======================== *)

\* The most polls the WebDriverWait of line 827 makes before its 20 s are
\* over.
MaxWaitPolls == 3

\* Where the browser can be during a login: the lookup page of
\* accounts.nike.com (line 467), the redirect target of line 469, the home
\* page and the member profile.
Locations ==
    { [ host |-> "accounts.nike.com", path |-> << "lookup" >> ],
      [ host |-> "www.nike.com", path |-> << "auth", "login" >> ],
      [ host |-> "www.nike.com", path |-> << >> ],
      [ host |-> "www.nike.com", path |-> << "member", "profile" >> ] }

LoginUrl == [ host |-> "accounts.nike.com", path |-> << "lookup" >> ]

\* Lines 478-484 and 846-849: the URL contains one of the indicators.
IsOnLoginPage(url) ==
    \/ url.host = "accounts.nike.com"
    \/ \E i \in 1..Len(url.path) : url.path[i] \in { "login", "signin", "lookup" }

\* Lines 641-699: what the attempt does about the verification-method
\* screen, given whether _find_first_element found a password field,
\* whether a candidate of the XPath chain became clickable and whether the
\* scan of all buttons found the text.
UsePasswordStepGoesOn(pw_visible, xpath_hit, scan_hit) ==
    IF pw_visible THEN "skip"
    ELSE IF xpath_hit THEN "click_xpath"
    ELSE IF scan_hit THEN "click_scan"
    ELSE "skip"
UsePasswordStep(pw_visible, xpath_hit, scan_hit) ==
    IF pw_visible THEN "skip"
    ELSE IF xpath_hit THEN "click_xpath"
    ELSE IF scan_hit THEN "click_scan"
    ELSE "raise"

\* Lines 826-842: one poll of the wait for the redirect: the lambda saw a
\* login page or not, and the 20 s are over or not.
LoginWaitStepReturnsOnTimeout(seen_login, timed_out) ==
    IF ~seen_login THEN "return"
    ELSE IF timed_out THEN "return"
    ELSE "poll"
LoginWaitStep(seen_login, timed_out) ==
    IF ~seen_login THEN "return"
    ELSE IF timed_out THEN "raise"
    ELSE "poll"

\* Line 580: the attempt starts by loading the login URL.
InitLogin ==
    /\ OnlyLg
    /\ lg = [ pc |-> "email", location |-> LoginUrl, typed |-> {},
              clicks |-> {}, route |-> "none", seen |-> "none",
              start |-> 0, now |-> 0, polls |-> 0,
              result |-> "none", err |-> "none" ]

LgRaises(kind) == [ lg EXCEPT !.pc = "done", !.result = "raised", !.err = kind ]

\* Lines 600-629: the email field, the value, the continue control (or the
\* RETURN key).
LgEmail ==
    /\ lg.pc = "email"
    /\ \E found \in BOOLEAN :
          lg' = IF found
                THEN [ lg EXCEPT !.pc = "route", !.typed = @ \cup { "email" } ]
                ELSE LgRaises("NoSuchElementException")
    /\ UNCHANGED butLg

\* Lines 641-699: the verification-method screen.
LgRoute ==
    /\ lg.pc = "route"
    /\ \E pw_visible, xpath_hit, scan_hit \in BOOLEAN :
          LET step == UsePasswordStep(pw_visible, xpath_hit, scan_hit)
              obs == IF pw_visible THEN "password_visible"
                     ELSE IF xpath_hit THEN "xpath"
                     ELSE IF scan_hit THEN "scan"
                     ELSE "nothing"
          IN  CASE step = "raise" ->
                      lg' = [ LgRaises("NoSuchElementException") EXCEPT
                                !.route = obs ]
                [] step = "skip" ->
                      lg' = [ lg EXCEPT !.pc = "password", !.route = obs ]
                [] OTHER ->
                      lg' = [ lg EXCEPT !.pc = "password", !.route = obs,
                                        !.clicks = @ \cup { "use_password" } ]
    /\ UNCHANGED butLg

\* Lines 707-757: the wait for the password field, the value, the sign-in
\* control.
LgPassword ==
    /\ lg.pc = "password"
    /\ \E field, button \in BOOLEAN :
          lg' = IF ~field THEN LgRaises("NoSuchElementException")
                ELSE IF ~button
                THEN [ LgRaises("NoSuchElementException") EXCEPT
                         !.typed = @ \cup { "password" } ]
                ELSE [ lg EXCEPT !.pc = "challenge",
                                 !.typed = @ \cup { "password" },
                                 !.clicks = @ \cup { "sign_in" } ]
    /\ UNCHANGED butLg

\* Lines 764-807: is the code screen showing? Then the 2FA loop starts,
\* else the bounded wait.
LgChallenge ==
    /\ lg.pc = "challenge"
    /\ \E code_input \in BOOLEAN :
          lg' = [ lg EXCEPT !.pc = IF code_input THEN "tfa_loop" ELSE "wait" ]
    /\ UNCHANGED butLg

\* Lines 809-822: one pass of the 2FA loop.
LgTfaPass ==
    /\ lg.pc = "tfa_loop"
    /\ LET on == IsOnLoginPage(lg.location)
           step == TwoFactorStep(lg.now - lg.start, on)
           polled == [ lg EXCEPT !.polls = @ + 1,
                                 !.seen = IF on THEN "login" ELSE "away" ]
       IN  CASE step = "raise" -> lg' = LgRaises("RuntimeError")
             [] step = "return" ->
                   lg' = [ polled EXCEPT !.pc = "done", !.result = "returned" ]
             [] step = "sleep" ->
                   lg' = [ polled EXCEPT !.pc = "tfa_sleep" ]
    /\ UNCHANGED butLg

LgTfaSleep ==
    /\ lg.pc = "tfa_sleep"
    /\ lg' = [ lg EXCEPT !.pc = "tfa_loop", !.now = @ + PollSleep2FA ]
    /\ UNCHANGED butLg

\* Lines 826-842: one poll of WebDriverWait(20).until(...); on the timeout
\* the handler raises RuntimeError, with the text of an error element or
\* without.
LgWaitPoll ==
    /\ lg.pc = "wait"
    /\ \E over \in BOOLEAN :
          LET on == IsOnLoginPage(lg.location)
              timed_out == over \/ lg.polls + 1 >= MaxWaitPolls
              step == LoginWaitStep(on, timed_out)
              polled == [ lg EXCEPT !.polls = @ + 1,
                                    !.seen = IF on THEN "login" ELSE "away" ]
          IN  CASE step = "return" ->
                      lg' = [ polled EXCEPT !.pc = "done", !.result = "returned" ]
                [] step = "raise" ->
                      lg' = [ polled EXCEPT !.pc = "done", !.result = "raised",
                                            !.err = "RuntimeError" ]
                [] step = "poll" -> lg' = polled
    /\ UNCHANGED butLg

\* The site moves the browser while the attempt waits.
LgNavigate ==
    /\ lg.pc \in { "tfa_loop", "tfa_sleep", "wait" }
    /\ \E url \in Locations \ { lg.location } :
          lg' = [ lg EXCEPT !.location = url ]
    /\ UNCHANGED butLg

NextLogin ==
    \/ LgEmail
    \/ LgRoute
    \/ LgPassword
    \/ LgChallenge
    \/ LgTfaPass
    \/ LgTfaSleep
    \/ LgWaitPoll
    \/ LgNavigate

SpecLogin == InitLogin /\ [][NextLogin]_vars

\* C21: an attempt of _browser_login returns only if the last location it
\* observed matched no login-page pattern; on the 2FA path and on the 20 s
\* wait alike, an attempt that ends while the location still matches one
\* raises an error.
C21_ReturnsOnlyOffLoginPage ==
    /\ lg.result = "returned" =>
          (lg.seen = "away" /\ ~IsOnLoginPage(lg.location))
    /\ (lg.pc = "done" /\ IsOnLoginPage(lg.location)) => lg.result = "raised"

C21_Witness ==
    /\ lg.result = "returned"
    /\ lg.polls > 1
    /\ lg.now = 0
    /\ lg.location.path = << "member", "profile" >>

\* C22: when no password field is visible after the email was submitted
\* and neither the selector chain nor the text scan finds a "use password"
\* control, the attempt raises and the password is never typed in it.
C22_NoUsePasswordRaises ==
    lg.route = "nothing" =>
        /\ lg.pc = "done"
        /\ lg.result = "raised"
        /\ "password" \notin lg.typed
        /\ "use_password" \notin lg.clicks

C22_Witness ==
    /\ lg.route = "nothing"
    /\ lg.result = "raised"
    /\ "email" \in lg.typed

(* =============== begin_checkout, lines 1045-1074 ======================= *)

\* Lines 1046-1052.
CheckoutChain ==
    << "button_data_qa_checkout_link", "a_data_qa_checkout_link",
       "button_aria_label_Checkout", "a_href_checkout",
       "button_data_qa_cart_checkout_button" >>

\* Lines 1054-1064: one candidate: it became clickable or the wait timed
\* out; after the click the URL contains "/checkout" or not.
CheckoutCandidateStep(clickable, reached) ==
    IF clickable /\ reached THEN "return" ELSE "next"

\* Lines 1067-1074: after the direct navigation.
CheckoutFallbackStepNoVerify(reached) == "return"
CheckoutFallbackStep(reached) == IF reached THEN "return" ELSE "raise"

InitCheckout ==
    /\ OnlyCo
    /\ co = [ pc |-> "chain", next |-> 1, clicked |-> << >>, missed |-> {},
              at_checkout |-> FALSE, verified |-> FALSE, fallback |-> FALSE,
              result |-> "none" ]

\* One iteration of the loop of line 1053; a click that raises anything
\* but the two exceptions of line 1063 ends the attempt.
CoCandidate ==
    /\ co.pc = "chain"
    /\ co.next <= Len(CheckoutChain)
    /\ \E clickable, click_ok, reached \in BOOLEAN :
          LET sel == CheckoutChain[co.next]
              step == CheckoutCandidateStep(clickable, reached)
          IN  IF ~clickable
              THEN co' = [ co EXCEPT !.next = @ + 1, !.missed = @ \cup { sel } ]
              ELSE IF ~click_ok
              THEN co' = [ co EXCEPT !.pc = "done", !.result = "raised" ]
              ELSE co' = [ co EXCEPT
                             !.clicked = Append(@, sel),
                             !.at_checkout = reached,
                             !.verified = reached,
                             !.next = @ + 1,
                             !.pc = IF step = "return" THEN "done" ELSE "chain",
                             !.result = IF step = "return" THEN "returned"
                                        ELSE "none" ]
    /\ UNCHANGED butCo

\* Lines 1066-1074: the direct navigation and its verification.
CoFallback ==
    /\ co.pc = "chain"
    /\ co.next > Len(CheckoutChain)
    /\ \E reached \in BOOLEAN :
          co' = [ co EXCEPT
                    !.fallback = TRUE,
                    !.at_checkout = reached,
                    !.verified = reached,
                    !.pc = "done",
                    !.result = IF CheckoutFallbackStep(reached) = "return"
                               THEN "returned" ELSE "raised" ]
    /\ UNCHANGED butCo

NextCheckout ==
    \/ CoCandidate
    \/ CoFallback

SpecCheckout == InitCheckout /\ [][NextCheckout]_vars

PayFieldOrder == << "card_number", "exp", "cvv" >>
PayFields == { PayFieldOrder[i] : i \in 1..Len(PayFieldOrder) }
PayFrameChain ==
    [ card_number |-> << "title_card_number", "id_cardNumber" >>,
      exp |-> << "title_expiration", "id_expirationDate" >>,
      cvv |-> << "title_CVV", "title_cvv", "id_cvv" >> ]

\* The profile, as far as _do_payment reads it: whether card_number and
\* card_cvv are non-empty strings (line 1154), and the expiry month and year
\* as the strings they are (defaults "", lines 73-74).
ExpMonths == { << >>, << "1", "2" >> }
ExpYears == { << >>, << "2", "7" >>, << "2", "0", "2", "7" >> }
PayProfiles ==
    [ card_number : BOOLEAN, cvv : BOOLEAN,
      exp_month : ExpMonths, exp_year : ExpYears ]

\* Line 1135: f"{card_exp_month}/{card_exp_year[-2:]}".
LastTwo(s) == IF Len(s) <= 2 THEN s ELSE SubSeq(s, Len(s) - 1, Len(s))
ExpValue(profile) == profile.exp_month \o << "/" >> \o LastTwo(profile.exp_year)

\* Line 1154, `if not value`, for the entry of field f.
PayValueEmpty(profile, f) ==
    IF f = "exp" THEN ExpValue(profile) = << >> ELSE ~profile[f]

\* Lines 1261-1270 for step "payment".
PaymentAlreadyComplete(marker) ==
    marker \in { "data_qa_place_order", "aria_place_order" }

\* What the block of lines 1165-1173 does inside the frame: "typed" (a write
\* went through, line 1168), "no_input" (every find_element raised
\* NoSuchElementException, line 1171), or "raises" (find_element or
\* human_clear_and_type raised something else, e.g.
\* ElementNotInteractableException or StaleElementReferenceException).
FrameWrites == { "typed", "no_input", "raises" }

\* The browsing context after that block: line 1173 runs switch_to_default
\* when the inner loop ends normally; the handler of line 1174 runs it for
\* the two exceptions it names; any other exception leaves lines 1173 and
\* 1175 unexecuted.
ContextAfterFrameWrite(w) == IF w = "raises" THEN "frame" ELSE "top"

InitPayment ==
    /\ OnlyPay
    /\ \E l \in 1..MaxRetryLimit, p \in PayProfiles :
          pay = [ pc |-> "begin", limit |-> l, attempt |-> 1, profile |-> p,
                  field |-> 1, cand |-> 1, ctx |-> "top", startctx |-> "top",
                  entered |-> 0, left |-> 0, writes |-> {}, last |-> "none",
                  result |-> "none" ]

\* How an attempt of _do_payment ends: returned ("ok") or raised ("error").
PayEnds(p, how) == [ p EXCEPT !.pc = "ended", !.last = how ]

PayNextField(p) ==
    [ p EXCEPT !.field = @ + 1, !.cand = 1,
               !.pc = IF p.field = Len(PayFieldOrder) THEN "finish"
                      ELSE "field" ]

\* Lines 1132-1137.
PayBegin ==
    /\ pay.pc = "begin"
    /\ \E marker \in { "none", "data_qa_place_order", "aria_place_order" } :
          LET p == [ pay EXCEPT !.startctx = pay.ctx, !.field = 1, !.cand = 1 ]
          IN  IF PaymentAlreadyComplete(marker)
              THEN pay' = PayEnds(p, "ok")
              ELSE pay' = [ p EXCEPT !.pc = "field" ]
    /\ UNCHANGED butPay

\* Lines 1153-1155.
PaySkipField ==
    /\ pay.pc = "field"
    /\ PayValueEmpty(pay.profile, PayFieldOrder[pay.field])
    /\ pay' = PayNextField(pay)
    /\ UNCHANGED butPay

\* Lines 1161-1164 and 1174-1175 for one frame selector: switch_to_iframe
\* (lines 307-312) times out, or it enters the frame.
PayEnterFrame ==
    /\ pay.pc = "field"
    /\ ~PayValueEmpty(pay.profile, PayFieldOrder[pay.field])
    /\ pay.cand <= Len(PayFrameChain[PayFieldOrder[pay.field]])
    /\ \E found \in BOOLEAN :
          IF found
          THEN pay' = [ pay EXCEPT !.pc = "in_frame", !.ctx = "frame",
                                   !.entered = @ + 1 ]
          ELSE pay' = [ pay EXCEPT !.cand = @ + 1, !.ctx = "top" ]
    /\ UNCHANGED butPay

\* Lines 1165-1173 in the frame entered by PayEnterFrame.
PayWriteInFrame ==
    /\ pay.pc = "in_frame"
    /\ \E w \in FrameWrites :
          LET after == [ pay EXCEPT
                           !.ctx = ContextAfterFrameWrite(w),
                           !.left = IF ContextAfterFrameWrite(w) = "top"
                                    THEN @ + 1 ELSE @ ]
              f == PayFieldOrder[pay.field]
          IN  CASE w = "typed" ->
                     pay' = PayNextField([ after EXCEPT !.writes = @ \cup { f } ])
                [] w = "no_input" ->
                     pay' = [ after EXCEPT !.pc = "field", !.cand = @ + 1 ]
                [] w = "raises" ->
                     pay' = PayEnds(after, "error")
    /\ UNCHANGED butPay

\* Lines 1177-1186: the fallback in the current context when no frame
\* candidate led to a write.
PayFallback ==
    /\ pay.pc = "field"
    /\ ~PayValueEmpty(pay.profile, PayFieldOrder[pay.field])
    /\ pay.cand > Len(PayFrameChain[PayFieldOrder[pay.field]])
    /\ \E w \in FrameWrites :
          LET f == PayFieldOrder[pay.field]
          IN  CASE w = "typed" ->
                     pay' = PayNextField([ pay EXCEPT !.writes = @ \cup { f } ])
                [] w = "no_input" -> pay' = PayNextField(pay)
                [] w = "raises" -> pay' = PayEnds(pay, "error")
    /\ UNCHANGED butPay

\* Lines 1190-1202: the billing checkbox and the continue control; a click
\* that raises ends the attempt with that error.
PayFinish ==
    /\ pay.pc = "finish"
    /\ \E ok \in BOOLEAN :
          pay' = PayEnds(pay, IF ok THEN "ok" ELSE "error")
    /\ UNCHANGED butPay

\* Lines 541-553 around _do_payment (line 1204): nothing in _retry or
\* _screenshot changes the browsing context.
PayRetry ==
    /\ pay.pc = "ended"
    /\ LET step == RetryStep(pay.attempt, pay.limit, pay.last)
       IN  CASE step = "return" ->
                  pay' = [ pay EXCEPT !.pc = "done", !.result = "returned" ]
             [] step = "raise" ->
                  pay' = [ pay EXCEPT !.pc = "done", !.result = "raised" ]
             [] step = "backoff" ->
                  pay' = [ pay EXCEPT !.pc = "begin", !.attempt = @ + 1,
                                      !.last = "none" ]
    /\ UNCHANGED butPay

NextPayment ==
    \/ PayBegin
    \/ PaySkipField
    \/ PayEnterFrame
    \/ PayWriteInFrame
    \/ PayFallback
    \/ PayFinish
    \/ PayRetry

SpecPayment == InitPayment /\ [][NextPayment]_vars

\* C25: at the end of every payment attempt, successful or failed, the
\* browsing context is the top-level document, so every attempt starts at
\* top level, and the stage is at top level whenever it turns to the next
\* frame candidate, the fallback or the next field.
C25_PaymentAttemptEndsAtTopLevel ==
    /\ pay.pc \in { "ended", "done" } => pay.ctx = "top"
    /\ pay.pc # "idle" => pay.startctx = "top"

\* What the code does keep: within an attempt that started at top level, the
\* stage is back at top level before each next candidate, fallback and field.
C25_TopLevelBetweenCandidates ==
    (pay.pc \in { "field", "finish" } /\ pay.startctx = "top")
        => pay.ctx = "top"

(* ------------------------- submit_order ------------------------------- *)

\* submit_selectors, lines 1214-1220.
SubmitChain ==
    << "data_qa_save_button", "data_qa_place_order", "aria_place_order",
       "aria_submit_order", "checkout_submit" >>

\* What the two clicks of human_click (lines 177-189) can do with a
\* clickable element.  The ActionChains click of lines 182-186 goes through
\* ("ok"), raises before the click reached the page ("fails"), or raises
\* after it did ("late": the click started a navigation and the command
\* timed out on page_load_timeout, line 226, waiting for it).  The script
\* click of line 189 runs only when the first raised: it goes through
\* ("ok"), raises an error such as StaleElementReferenceException
\* ("raises"), or raises TimeoutException before the script ran
\* ("timeout").
NativeOutcomes == { "ok", "fails", "late" }
JsOutcomes == { "ok", "raises", "timeout" }
ClickOutcomes == [ native : NativeOutcomes, js : JsOutcomes ]

\* Lines 177-189: how the call ends and how many clicks reached the control.
HumanClick(o) ==
    IF o.native = "ok"
    THEN [ ends |-> "returns", delivered |-> 1 ]
    ELSE LET first == IF o.native = "late" THEN 1 ELSE 0
         IN  CASE o.js = "ok" ->
                    [ ends |-> "returns", delivered |-> first + 1 ]
               [] o.js = "raises" ->
                    [ ends |-> "raises", delivered |-> first ]
               [] o.js = "timeout" ->
                    [ ends |-> "timeout", delivered |-> first ]

\* One iteration of the loop of line 1221: "continue" (line 1232, also for a
\* TimeoutException out of human_click), "return" (line 1230) or "raise" (an
\* exception that line 1231 does not name).
SubmitCandidateStepGoesOn(clickable, ends) ==
    IF ~clickable THEN "continue"
    ELSE IF ends = "raises" THEN "raise"
    ELSE "continue"
SubmitCandidateStep(clickable, ends) ==
    IF ~clickable THEN "continue"
    ELSE IF ends = "raises" THEN "raise"
    ELSE IF ends = "timeout" THEN "continue"
    ELSE "return"

InitSubmit ==
    /\ OnlySub
    /\ \E l \in 1..MaxRetryLimit :
          sub = [ pc |-> "chain", limit |-> l, attempt |-> 1, next |-> 1,
                  tried |-> << >>, missed |-> {}, calls |-> << >>,
                  clicked |-> << >>, delivered |-> 0,
                  shots |-> 0, errshots |-> 0, allclicks |-> 0,
                  last |-> "none", kind |-> "none", result |-> "none" ]

\* Lines 1221-1232 for the candidate at position sub.next.
SubCandidate ==
    /\ sub.pc = "chain"
    /\ sub.next <= Len(SubmitChain)
    /\ \E clickable \in BOOLEAN, o \in ClickOutcomes :
          LET sel == SubmitChain[sub.next]
              click == HumanClick(o)
              step == SubmitCandidateStep(clickable, click.ends)
              t == [ sub EXCEPT !.tried = Append(@, sel), !.next = @ + 1 ]
              c == [ t EXCEPT !.calls = Append(@, sel),
                              !.delivered = @ + click.delivered,
                              !.allclicks = @ + click.delivered,
                              !.clicked = IF click.ends = "returns"
                                          THEN Append(@, sel) ELSE @ ]
          IN  IF ~clickable
              THEN sub' = [ t EXCEPT !.missed = @ \cup { sel } ]
              ELSE CASE step = "raise" ->
                          sub' = [ c EXCEPT !.pc = "ended", !.last = "error",
                                            !.kind = "WebDriverException" ]
                     [] step = "return" ->
                          sub' = [ c EXCEPT !.pc = "ended", !.last = "ok",
                                            !.shots = @ + 1 ]
                     [] step = "continue" -> sub' = c
    /\ UNCHANGED butSub

\* Line 1234.
SubNotFound ==
    /\ sub.pc = "chain"
    /\ sub.next > Len(SubmitChain)
    /\ sub' = [ sub EXCEPT !.pc = "ended", !.last = "error",
                           !.kind = "NoSuchElementException" ]
    /\ UNCHANGED butSub

\* Lines 541-553 around _do_submit (line 1236).
SubRetry ==
    /\ sub.pc = "ended"
    /\ LET step == RetryStep(sub.attempt, sub.limit, sub.last)
           shot == [ sub EXCEPT !.errshots = @ + 1 ]
       IN  CASE step = "return" ->
                  sub' = [ sub EXCEPT !.pc = "done", !.result = "returned" ]
             [] step = "raise" ->
                  sub' = [ shot EXCEPT !.pc = "done", !.result = "raised" ]
             [] step = "backoff" ->
                  sub' = [ shot EXCEPT
                             !.pc = "chain", !.attempt = @ + 1, !.next = 1,
                             !.tried = << >>, !.missed = {},
                             !.calls = << >>, !.clicked = << >>,
                             !.delivered = 0, !.shots = 0,
                             !.last = "none", !.kind = "none" ]
    /\ UNCHANGED butSub

NextSubmit ==
    \/ SubCandidate
    \/ SubNotFound
    \/ SubRetry

SpecSubmit == InitSubmit /\ [][NextSubmit]_vars

\* The candidates tried so far in the attempt that were clickable.
SubClickable ==
    SelectSeq(sub.tried, LAMBDA s : s \notin sub.missed)

\* C26: in an attempt of submit_order the candidates are tried in chain
\* order and the first clickable one is clicked (human_click is called on
\* it); a click that succeeds (human_click returns) ends the attempt at
\* once, with exactly one capture and no later candidate tried; and when no
\* candidate is clickable the attempt fails with "not found" after all
\* were tried, and nothing is clicked.
C26_FirstClickableClickedOnce ==
    sub.pc # "idle" =>
        /\ sub.tried = SubSeq(SubmitChain, 1, Len(sub.tried))
        /\ sub.calls = SubClickable
        /\ sub.clicked # << >> =>
              /\ sub.pc \in { "ended", "done" }
              /\ sub.last = "ok"
              /\ sub.clicked = << sub.tried[Len(sub.tried)] >>
              /\ sub.shots = 1
        /\ sub.clicked = << >> => sub.shots = 0
        /\ sub.last = "ok" => sub.clicked # << >>
        /\ (sub.pc \in { "ended", "done" } /\ SubClickable = << >>) =>
              /\ sub.last = "error"
              /\ sub.kind = "NoSuchElementException"
              /\ sub.tried = SubmitChain
              /\ sub.delivered = 0
        /\ sub.kind = "NoSuchElementException" =>
              (sub.tried = SubmitChain /\ sub.clicked = << >>)

C26_Witness ==
    /\ sub.pc = "ended"
    /\ sub.last = "ok"
    /\ Len(sub.tried) = 3
    /\ sub.calls = << "aria_place_order" >>
    /\ sub.clicked = << "aria_place_order" >>
    /\ sub.attempt = 2

\* C32: in any call of submit_order, retries included, at most one click
\* reaches a final-submission control, and no attempt starts after a click
\* has reached one.
C32_AtMostOneSubmitClick ==
    sub.pc # "idle" =>
        /\ sub.allclicks <= 1
        /\ (sub.pc = "chain" /\ sub.tried = << >>) => sub.allclicks = 0

\* What the code keeps: once human_click has returned, submit_order clicks
\* nothing more and is not attempted again.
C32_NoClickAfterReturnedClick ==
    sub.clicked # << >> =>
        /\ sub.pc \in { "ended", "done" }
        /\ sub.last = "ok"
        /\ Len(sub.calls) >= 1
        /\ sub.calls[Len(sub.calls)] = sub.clicked[1]

(* -------------------- human_clear_and_type ---------------------------- *)

\* Texts are sequences of characters; MaxTextLen bounds the profile value
\* and what the field holds when the stage first reaches it.
MaxTextLen == 2
Chars == { "x", "y" }
Texts == UNION { [ 1..n -> Chars ] : n \in 0..MaxTextLen }

\* The key strokes and clicks human_type (lines 129-146) sends to the
\* element, in order: one click, then one send_keys per character.
HumanTypeKeys(text) ==
    << [ k |-> "click", c |-> "" ] >>
        \o [ i \in 1..Len(text) |-> [ k |-> "char", c |-> text[i] ] ]

\* The same for human_clear_and_type (lines 148-157).
HumanClearAndTypeKeysNoClear(text) == HumanTypeKeys(text)
HumanClearAndTypeKeys(text) ==
    << [ k |-> "click", c |-> "" ],
       [ k |-> "ctrl_a", c |-> "" ],
       [ k |-> "backspace", c |-> "" ] >> \o HumanTypeKeys(text)

\* A text input as the browser keeps it: its value, the caret position
\* (0..Len) and whether the whole value is selected.
\* Press is the input's reaction to one event on Windows and Linux, the
\* platforms line 236-256 looks for Chrome on: a click puts the caret
\* somewhere in the value (at), CONTROL+a selects the whole value, BACKSPACE
\* deletes the selection or else the character before the caret, a
\* character replaces the selection or else is inserted at the caret.
Press(fld, key, at) ==
    LET v == fld.value
        n == Len(v)
    IN  CASE key.k = "click" ->
               [ value |-> v, caret |-> IF at <= n THEN at ELSE n,
                 selected |-> FALSE ]
          [] key.k = "ctrl_a" ->
               [ value |-> v, caret |-> n, selected |-> n > 0 ]
          [] key.k = "backspace" ->
               IF fld.selected
               THEN [ value |-> << >>, caret |-> 0, selected |-> FALSE ]
               ELSE IF fld.caret = 0 THEN fld
               ELSE [ value |-> SubSeq(v, 1, fld.caret - 1)
                                   \o SubSeq(v, fld.caret + 1, n),
                      caret |-> fld.caret - 1, selected |-> FALSE ]
          [] key.k = "char" ->
               IF fld.selected
               THEN [ value |-> << key.c >>, caret |-> 1, selected |-> FALSE ]
               ELSE [ value |-> SubSeq(v, 1, fld.caret) \o << key.c >>
                                   \o SubSeq(v, fld.caret + 1, n),
                      caret |-> fld.caret + 1, selected |-> FALSE ]

InitTyping ==
    /\ OnlyTyp
    /\ \E l \in 1..MaxRetryLimit, text \in Texts \ { << >> }, held \in Texts :
          typ = [ pc |-> "typing", limit |-> l, attempt |-> 1, text |-> text,
                  fld |-> [ value |-> held, caret |-> 0, selected |-> FALSE ],
                  sent |-> 0, fills |-> 0, last |-> "none",
                  result |-> "none" ]

\* Line 1109 for a field whose value is non-empty and whose element is
\* displayed: the next event of human_clear_and_type reaches the element,
\* or the call raises (the element went stale, or is covered).
TypPress ==
    /\ typ.pc = "typing"
    /\ typ.sent < Len(HumanClearAndTypeKeys(typ.text))
    /\ \E ok \in BOOLEAN, at \in 0..(2 * MaxTextLen) :
          IF ok
          THEN LET keys == HumanClearAndTypeKeys(typ.text)
                   f == Press(typ.fld, keys[typ.sent + 1], at)
                   n == typ.sent + 1
               IN  typ' = [ typ EXCEPT
                              !.fld = f, !.sent = n,
                              !.pc = IF n = Len(keys) THEN "filled"
                                     ELSE "typing",
                              !.fills = IF n = Len(keys) THEN @ + 1 ELSE @ ]
          ELSE typ' = [ typ EXCEPT !.pc = "ended", !.last = "error" ]
    /\ UNCHANGED butTyp

\* Lines 1110-1118: the rest of the attempt after the field was filled; it
\* returns, or a later field or the continue click raises.
TypRest ==
    /\ typ.pc = "filled"
    /\ \E ok \in BOOLEAN :
          typ' = [ typ EXCEPT !.pc = "ended",
                              !.last = IF ok THEN "ok" ELSE "error" ]
    /\ UNCHANGED butTyp

\* Lines 541-553 around _do_shipping (line 1120): the next attempt finds the
\* field as the last one left it.
TypRetry ==
    /\ typ.pc = "ended"
    /\ LET step == RetryStep(typ.attempt, typ.limit, typ.last)
       IN  CASE step = "return" ->
                  typ' = [ typ EXCEPT !.pc = "done", !.result = "returned" ]
             [] step = "raise" ->
                  typ' = [ typ EXCEPT !.pc = "done", !.result = "raised" ]
             [] step = "backoff" ->
                  typ' = [ typ EXCEPT !.pc = "typing", !.attempt = @ + 1,
                                      !.sent = 0, !.last = "none" ]
    /\ UNCHANGED butTyp

NextTyping ==
    \/ TypPress
    \/ TypRest
    \/ TypRetry

SpecTyping == InitTyping /\ [][NextTyping]_vars

\* C30: whenever an attempt of fill-shipping has filled the field, in a
\* first attempt or in a retry and whatever the field held before, the field
\* contains exactly the profile value; and a stage that returned leaves the
\* field with exactly that value.
C30_FilledFieldHoldsExactlyTheValue ==
    /\ typ.pc = "filled" => typ.fld.value = typ.text
    /\ (typ.pc \in { "ended", "done" } /\ typ.last = "ok")
          => typ.fld.value = typ.text

\* A retry fills a field that an earlier attempt had already filled.
C30_Witness ==
    /\ typ.pc = "filled"
    /\ typ.attempt >= 2
    /\ typ.fills >= 2
    /\ typ.fld.value = typ.text
    /\ Len(typ.text) = MaxTextLen

(* ============ _retry with any retry_limit, lines 541-553 =============== *)

\* C31: for every value of retry_limit, zero and negative values included,
\* _retry returns normally only if some invocation of the stage function
\* returned normally.
C31_ReturnsOnlyAfterSuccess ==
    rc.result = "returned" =>
        \E i \in 1..Len(rc.results) : rc.results[i] = "ok"

\* What the code keeps: the same for every retry_limit of at least one.
C31_ReturnsOnlyAfterSuccessFromOne ==
    (rc.result = "returned" /\ rc.limit >= 1) =>
        \E i \in 1..Len(rc.results) : rc.results[i] = "ok"

(* ========= NikeAPILogin.login, session writes, lines 384-449 =========== *)

\* C33: whenever login() returns false, no session artifact (response
\* cookie, access-token cookie, local-storage entry) has been written into
\* the browser.
C33_FalseMeansNoSessionWrite ==
    api.result = "false" => ~SessionInBrowser

\* What the code keeps: nothing is written unless the reply had status 200
\* and a JSON body.
C33_NoWriteWithout200 ==
    SessionInBrowser =>
        /\ api.reply.kind = "status" /\ api.reply.code = 200
        /\ api.body # "not_json"

(* ============ fill_payment, which fields are written =================== *)

\* C34: fill-payment writes a payment field only when the corresponding
\* profile value is non-empty; in particular nothing is typed into the
\* expiration input when the expiry month and the expiry year are both
\* empty.
C34_WritesOnlyNonEmptyValues ==
    pay.pc # "idle" =>
        /\ "card_number" \in pay.writes => pay.profile.card_number
        /\ "cvv" \in pay.writes => pay.profile.cvv
        /\ "exp" \in pay.writes =>
              (pay.profile.exp_month # << >> \/ pay.profile.exp_year # << >>)

\* What the code keeps: the card number and the security code are written
\* only when the profile holds them.
C34_CardAndCvvOnlyWhenPresent ==
    pay.pc # "idle" =>
        /\ "card_number" \in pay.writes => pay.profile.card_number
        /\ "cvv" \in pay.writes => pay.profile.cvv

====
